---- MODULE Spec2Model ----
(***************************************************************************)
(* Model of the interview-session scoring code of Hiring_Guru_AI_Backend:  *)
(*   src/app/interview/scores.py  (SessionAnalyzer)                        *)
(*   src/app/main3.py             (the /greeting, /ai-response and         *)
(*                                 /api/session/{id}/analyze handlers)     *)
(*   src/app/mongo.py             (InterviewDataCollection / Manager)      *)
(*                                                                         *)
(* Python strings are sequences: an oracle reply is a sequence of          *)
(* one-character strings, a transcript text is a sequence of word tokens.  *)
(* A Python dict is a function whose DOMAIN is the set of keys present.    *)
(***************************************************************************)
EXTENDS Integers, Sequences, FiniteSets, TLC

\* ------------------------------------------------------------------ bounds
\* Longest oracle reply (in characters) that the single-call specification draws.
MaxReplyLen == 3
\* Longest conversation that the analyzer specification draws.
MaxTurns == 2
\* Interview sessions the service creates.
MaxSessions == 2
\* /ai-response requests that add an answer or a question to one session.
MaxExchanges == 1
\* Analyses of one session dict by one analyzer.
MaxRuns == 3
\* Turns one stored conversation holds when the collection methods are called
\* directly.
MaxStored == 3
\* Questions one session is asked by /ai-response requests without a number.
MaxQuestions == 3
\* /analyze-answer requests that wait for their upload at the same time.
MaxPending == 2
\* Documents stored beside an earlier document with the same sessionId.
MaxShadowed == 1

VARIABLES
    \* --- one per-dimension oracle call (SpecOracle)
    call,            \* [dim, responses, outcome, done, score]
    \* --- one run of SessionAnalyzer.analyze_session_scores (SpecAnalyzer)
    session_data,    \* the dict handed to the analyzer
    oracle,          \* the outcome of each oracle call of the run
    analysis_result, \* [done, report, user_responses]
    analyzer,        \* the SessionAnalyzer object
    \* --- one call of _calculate_overall_score (SpecOverall)
    overall_call,    \* [scores, done, overall]
    \* --- repeated analyses of one session dict by one analyzer (SpecRepeat)
    runs,            \* the runs so far, each [now, outcomes, report]
    \* --- one call of _parse_feedback_text (SpecFeedback)
    feedback_call,   \* [scores, done, feedback]
    \* --- the interview service of main3.py (Spec)
    mongo,           \* the interview_data collection: sessionId -> document
    sessions,        \* the module-level sessions dict: session id -> session dict
    response,        \* the last request served: [endpoint, session_id, status, db_calls, body]
    pending,         \* the /analyze-answer requests waiting at `await audio_file.read()`,
                     \* one entry per coroutine, in the order they began to wait
    indexes,         \* the fields of interview_data that have a unique index
    shadowed         \* the documents inserted with a sessionId that an earlier document
                     \* has: a filter on sessionId matches the earlier one

analysis_vars ==
    <<call, session_data, oracle, analysis_result, analyzer, overall_call, runs, feedback_call>>
store_vars == <<indexes, shadowed>>
other_vars == <<runs, feedback_call, mongo, sessions, response, pending, store_vars>>
service_vars == <<mongo, sessions, response>>
vars == <<call, session_data, oracle, analysis_result, analyzer, overall_call,
          runs, feedback_call,
          mongo, sessions, response, pending, indexes, shadowed>>

\* ------------------------------------------------------- Python helpers
Min(a, b) == IF a < b THEN a ELSE b
Max(a, b) == IF a > b THEN a ELSE b

\* All sequences over S of length at most n.
SeqsUpTo(S, n) == UNION {[1..k -> S] : k \in 0..n}

\* A string is a sequence of characters; a character with no escape in a TLA+
\* string is written as its code point, "U+00A0".
\* str.strip(): leading and trailing whitespace removed, whitespace being every
\* character for which str.isspace() is true.
Whitespace ==
    {"\t", "\n", "U+000B", "\f", "\r", "U+001C", "U+001D", "U+001E", "U+001F", " ",
     "U+0085", "U+00A0", "U+1680", "U+2000", "U+2001", "U+2002", "U+2003", "U+2004",
     "U+2005", "U+2006", "U+2007", "U+2008", "U+2009", "U+200A", "U+2028", "U+2029",
     "U+202F", "U+205F", "U+3000"}

\* The information separators U+001C..U+001F are whitespace to str.strip() and
\* not to int().
Separators == {"U+001C", "U+001D", "U+001E", "U+001F"}
IntWhitespace == Whitespace \ Separators

RECURSIVE LStripChars(_, _)
LStripChars(s, chars) ==
    IF s # <<>> /\ Head(s) \in chars THEN LStripChars(Tail(s), chars) ELSE s

RECURSIVE RStripChars(_, _)
RStripChars(s, chars) ==
    IF s # <<>> /\ s[Len(s)] \in chars
    THEN RStripChars(SubSeq(s, 1, Len(s) - 1), chars)
    ELSE s

LStrip(s) == LStripChars(s, Whitespace)
RStrip(s) == RStripChars(s, Whitespace)
Strip(s) == RStrip(LStrip(s))

\* The decimal digits int() accepts: DigitChars[d + 1] holds every character of
\* Unicode category Nd whose decimal value is d.
DigitChars ==
    <<{"0", "U+0660", "U+06F0", "U+07C0", "U+0966", "U+09E6", "U+0A66", "U+0AE6",
       "U+0B66", "U+0BE6", "U+0C66", "U+0CE6", "U+0D66", "U+0DE6", "U+0E50", "U+0ED0",
       "U+0F20", "U+1040", "U+1090", "U+17E0", "U+1810", "U+1946", "U+19D0", "U+1A80",
       "U+1A90", "U+1B50", "U+1BB0", "U+1C40", "U+1C50", "U+A620", "U+A8D0", "U+A900",
       "U+A9D0", "U+A9F0", "U+AA50", "U+ABF0", "U+FF10", "U+104A0", "U+10D30",
       "U+11066", "U+110F0", "U+11136", "U+111D0", "U+112F0", "U+11450", "U+114D0",
       "U+11650", "U+116C0", "U+11730", "U+118E0", "U+11950", "U+11C50", "U+11D50",
       "U+11DA0", "U+16A60", "U+16AC0", "U+16B50", "U+1D7CE", "U+1D7D8", "U+1D7E2",
       "U+1D7EC", "U+1D7F6", "U+1E140", "U+1E2F0", "U+1E950", "U+1FBF0"},
      {"1", "U+0661", "U+06F1", "U+07C1", "U+0967", "U+09E7", "U+0A67", "U+0AE7",
       "U+0B67", "U+0BE7", "U+0C67", "U+0CE7", "U+0D67", "U+0DE7", "U+0E51", "U+0ED1",
       "U+0F21", "U+1041", "U+1091", "U+17E1", "U+1811", "U+1947", "U+19D1", "U+1A81",
       "U+1A91", "U+1B51", "U+1BB1", "U+1C41", "U+1C51", "U+A621", "U+A8D1", "U+A901",
       "U+A9D1", "U+A9F1", "U+AA51", "U+ABF1", "U+FF11", "U+104A1", "U+10D31",
       "U+11067", "U+110F1", "U+11137", "U+111D1", "U+112F1", "U+11451", "U+114D1",
       "U+11651", "U+116C1", "U+11731", "U+118E1", "U+11951", "U+11C51", "U+11D51",
       "U+11DA1", "U+16A61", "U+16AC1", "U+16B51", "U+1D7CF", "U+1D7D9", "U+1D7E3",
       "U+1D7ED", "U+1D7F7", "U+1E141", "U+1E2F1", "U+1E951", "U+1FBF1"},
      {"2", "U+0662", "U+06F2", "U+07C2", "U+0968", "U+09E8", "U+0A68", "U+0AE8",
       "U+0B68", "U+0BE8", "U+0C68", "U+0CE8", "U+0D68", "U+0DE8", "U+0E52", "U+0ED2",
       "U+0F22", "U+1042", "U+1092", "U+17E2", "U+1812", "U+1948", "U+19D2", "U+1A82",
       "U+1A92", "U+1B52", "U+1BB2", "U+1C42", "U+1C52", "U+A622", "U+A8D2", "U+A902",
       "U+A9D2", "U+A9F2", "U+AA52", "U+ABF2", "U+FF12", "U+104A2", "U+10D32",
       "U+11068", "U+110F2", "U+11138", "U+111D2", "U+112F2", "U+11452", "U+114D2",
       "U+11652", "U+116C2", "U+11732", "U+118E2", "U+11952", "U+11C52", "U+11D52",
       "U+11DA2", "U+16A62", "U+16AC2", "U+16B52", "U+1D7D0", "U+1D7DA", "U+1D7E4",
       "U+1D7EE", "U+1D7F8", "U+1E142", "U+1E2F2", "U+1E952", "U+1FBF2"},
      {"3", "U+0663", "U+06F3", "U+07C3", "U+0969", "U+09E9", "U+0A69", "U+0AE9",
       "U+0B69", "U+0BE9", "U+0C69", "U+0CE9", "U+0D69", "U+0DE9", "U+0E53", "U+0ED3",
       "U+0F23", "U+1043", "U+1093", "U+17E3", "U+1813", "U+1949", "U+19D3", "U+1A83",
       "U+1A93", "U+1B53", "U+1BB3", "U+1C43", "U+1C53", "U+A623", "U+A8D3", "U+A903",
       "U+A9D3", "U+A9F3", "U+AA53", "U+ABF3", "U+FF13", "U+104A3", "U+10D33",
       "U+11069", "U+110F3", "U+11139", "U+111D3", "U+112F3", "U+11453", "U+114D3",
       "U+11653", "U+116C3", "U+11733", "U+118E3", "U+11953", "U+11C53", "U+11D53",
       "U+11DA3", "U+16A63", "U+16AC3", "U+16B53", "U+1D7D1", "U+1D7DB", "U+1D7E5",
       "U+1D7EF", "U+1D7F9", "U+1E143", "U+1E2F3", "U+1E953", "U+1FBF3"},
      {"4", "U+0664", "U+06F4", "U+07C4", "U+096A", "U+09EA", "U+0A6A", "U+0AEA",
       "U+0B6A", "U+0BEA", "U+0C6A", "U+0CEA", "U+0D6A", "U+0DEA", "U+0E54", "U+0ED4",
       "U+0F24", "U+1044", "U+1094", "U+17E4", "U+1814", "U+194A", "U+19D4", "U+1A84",
       "U+1A94", "U+1B54", "U+1BB4", "U+1C44", "U+1C54", "U+A624", "U+A8D4", "U+A904",
       "U+A9D4", "U+A9F4", "U+AA54", "U+ABF4", "U+FF14", "U+104A4", "U+10D34",
       "U+1106A", "U+110F4", "U+1113A", "U+111D4", "U+112F4", "U+11454", "U+114D4",
       "U+11654", "U+116C4", "U+11734", "U+118E4", "U+11954", "U+11C54", "U+11D54",
       "U+11DA4", "U+16A64", "U+16AC4", "U+16B54", "U+1D7D2", "U+1D7DC", "U+1D7E6",
       "U+1D7F0", "U+1D7FA", "U+1E144", "U+1E2F4", "U+1E954", "U+1FBF4"},
      {"5", "U+0665", "U+06F5", "U+07C5", "U+096B", "U+09EB", "U+0A6B", "U+0AEB",
       "U+0B6B", "U+0BEB", "U+0C6B", "U+0CEB", "U+0D6B", "U+0DEB", "U+0E55", "U+0ED5",
       "U+0F25", "U+1045", "U+1095", "U+17E5", "U+1815", "U+194B", "U+19D5", "U+1A85",
       "U+1A95", "U+1B55", "U+1BB5", "U+1C45", "U+1C55", "U+A625", "U+A8D5", "U+A905",
       "U+A9D5", "U+A9F5", "U+AA55", "U+ABF5", "U+FF15", "U+104A5", "U+10D35",
       "U+1106B", "U+110F5", "U+1113B", "U+111D5", "U+112F5", "U+11455", "U+114D5",
       "U+11655", "U+116C5", "U+11735", "U+118E5", "U+11955", "U+11C55", "U+11D55",
       "U+11DA5", "U+16A65", "U+16AC5", "U+16B55", "U+1D7D3", "U+1D7DD", "U+1D7E7",
       "U+1D7F1", "U+1D7FB", "U+1E145", "U+1E2F5", "U+1E955", "U+1FBF5"},
      {"6", "U+0666", "U+06F6", "U+07C6", "U+096C", "U+09EC", "U+0A6C", "U+0AEC",
       "U+0B6C", "U+0BEC", "U+0C6C", "U+0CEC", "U+0D6C", "U+0DEC", "U+0E56", "U+0ED6",
       "U+0F26", "U+1046", "U+1096", "U+17E6", "U+1816", "U+194C", "U+19D6", "U+1A86",
       "U+1A96", "U+1B56", "U+1BB6", "U+1C46", "U+1C56", "U+A626", "U+A8D6", "U+A906",
       "U+A9D6", "U+A9F6", "U+AA56", "U+ABF6", "U+FF16", "U+104A6", "U+10D36",
       "U+1106C", "U+110F6", "U+1113C", "U+111D6", "U+112F6", "U+11456", "U+114D6",
       "U+11656", "U+116C6", "U+11736", "U+118E6", "U+11956", "U+11C56", "U+11D56",
       "U+11DA6", "U+16A66", "U+16AC6", "U+16B56", "U+1D7D4", "U+1D7DE", "U+1D7E8",
       "U+1D7F2", "U+1D7FC", "U+1E146", "U+1E2F6", "U+1E956", "U+1FBF6"},
      {"7", "U+0667", "U+06F7", "U+07C7", "U+096D", "U+09ED", "U+0A6D", "U+0AED",
       "U+0B6D", "U+0BED", "U+0C6D", "U+0CED", "U+0D6D", "U+0DED", "U+0E57", "U+0ED7",
       "U+0F27", "U+1047", "U+1097", "U+17E7", "U+1817", "U+194D", "U+19D7", "U+1A87",
       "U+1A97", "U+1B57", "U+1BB7", "U+1C47", "U+1C57", "U+A627", "U+A8D7", "U+A907",
       "U+A9D7", "U+A9F7", "U+AA57", "U+ABF7", "U+FF17", "U+104A7", "U+10D37",
       "U+1106D", "U+110F7", "U+1113D", "U+111D7", "U+112F7", "U+11457", "U+114D7",
       "U+11657", "U+116C7", "U+11737", "U+118E7", "U+11957", "U+11C57", "U+11D57",
       "U+11DA7", "U+16A67", "U+16AC7", "U+16B57", "U+1D7D5", "U+1D7DF", "U+1D7E9",
       "U+1D7F3", "U+1D7FD", "U+1E147", "U+1E2F7", "U+1E957", "U+1FBF7"},
      {"8", "U+0668", "U+06F8", "U+07C8", "U+096E", "U+09EE", "U+0A6E", "U+0AEE",
       "U+0B6E", "U+0BEE", "U+0C6E", "U+0CEE", "U+0D6E", "U+0DEE", "U+0E58", "U+0ED8",
       "U+0F28", "U+1048", "U+1098", "U+17E8", "U+1818", "U+194E", "U+19D8", "U+1A88",
       "U+1A98", "U+1B58", "U+1BB8", "U+1C48", "U+1C58", "U+A628", "U+A8D8", "U+A908",
       "U+A9D8", "U+A9F8", "U+AA58", "U+ABF8", "U+FF18", "U+104A8", "U+10D38",
       "U+1106E", "U+110F8", "U+1113E", "U+111D8", "U+112F8", "U+11458", "U+114D8",
       "U+11658", "U+116C8", "U+11738", "U+118E8", "U+11958", "U+11C58", "U+11D58",
       "U+11DA8", "U+16A68", "U+16AC8", "U+16B58", "U+1D7D6", "U+1D7E0", "U+1D7EA",
       "U+1D7F4", "U+1D7FE", "U+1E148", "U+1E2F8", "U+1E958", "U+1FBF8"},
      {"9", "U+0669", "U+06F9", "U+07C9", "U+096F", "U+09EF", "U+0A6F", "U+0AEF",
       "U+0B6F", "U+0BEF", "U+0C6F", "U+0CEF", "U+0D6F", "U+0DEF", "U+0E59", "U+0ED9",
       "U+0F29", "U+1049", "U+1099", "U+17E9", "U+1819", "U+194F", "U+19D9", "U+1A89",
       "U+1A99", "U+1B59", "U+1BB9", "U+1C49", "U+1C59", "U+A629", "U+A8D9", "U+A909",
       "U+A9D9", "U+A9F9", "U+AA59", "U+ABF9", "U+FF19", "U+104A9", "U+10D39",
       "U+1106F", "U+110F9", "U+1113F", "U+111D9", "U+112F9", "U+11459", "U+114D9",
       "U+11659", "U+116C9", "U+11739", "U+118E9", "U+11959", "U+11C59", "U+11D59",
       "U+11DA9", "U+16A69", "U+16AC9", "U+16B59", "U+1D7D7", "U+1D7E1", "U+1D7EB",
       "U+1D7F5", "U+1D7FF", "U+1E149", "U+1E2F9", "U+1E959", "U+1FBF9"}>>
IsDigit(c) == \E i \in 1..Len(DigitChars) : c \in DigitChars[i]
DigitVal(c) == (CHOOSE i \in 1..Len(DigitChars) : c \in DigitChars[i]) - 1

\* The digits of s, underscores skipped, read as a decimal number.
RECURSIVE DecimalValue(_, _)
DecimalValue(s, acc) ==
    IF s = <<>> THEN acc
    ELSE IF Head(s) = "_" THEN DecimalValue(Tail(s), acc)
    ELSE DecimalValue(Tail(s), acc * 10 + DigitVal(Head(s)))

\* sys.int_max_str_digits, CPython's default: int() raises ValueError for a
\* string of more digits (leading zeros counted, underscores not).
IntMaxStrDigits == 4300

\* int(str): surrounding whitespace, an optional sign, then decimal digits (of
\* any script) that may be grouped by single underscores; anything else raises
\* ValueError (ok = FALSE).
PyInt(str) ==
    LET s == RStripChars(LStripChars(str, IntWhitespace), IntWhitespace)
        signed == s # <<>> /\ Head(s) \in {"+", "-"}
        body == IF signed THEN Tail(s) ELSE s
        wellFormed ==
            /\ body # <<>>
            /\ \A i \in 1..Len(body) : IsDigit(body[i]) \/ body[i] = "_"
            /\ IsDigit(body[1])
            /\ IsDigit(body[Len(body)])
            /\ \A i \in 1..(Len(body) - 1) : ~(body[i] = "_" /\ body[i + 1] = "_")
        digits == Cardinality({i \in 1..Len(body) : body[i] # "_"})
        magnitude == DecimalValue(body, 0)
    IN  IF ~wellFormed \/ digits > IntMaxStrDigits THEN [ok |-> FALSE, val |-> 0]
        ELSE [ok |-> TRUE,
              val |-> IF signed /\ Head(s) = "-" THEN 0 - magnitude ELSE magnitude]

\* -------------------------------------------------------- the oracle
\* What a chat.completions.create call does: it raises, or it returns a message
\* whose content is a string.
Raise == [raised |-> TRUE, content |-> <<>>]
Reply(chars) == [raised |-> FALSE, content |-> chars]

Dimensions == {"confidence", "technical", "communication", "fluency", "base_knowledge"}

\* max(1, min(100, score))
ClampNoUpper(score) == Max(1, score)
Clamp(score) == Max(1, Min(100, score))

\* The first run of digits of a text.
RECURSIVE FirstDigits(_, _)
FirstDigits(s, acc) ==
    IF s = <<>> THEN acc
    ELSE IF IsDigit(Head(s)) THEN FirstDigits(Tail(s), acc \o <<Head(s)>>)
    ELSE IF acc = <<>> THEN FirstDigits(Tail(s), acc)
    ELSE acc

\* A mutant: a reply that int() refuses gives a default of its own.
ScoreFailureByKind(outcome, default) ==
    IF outcome.raised THEN default
    ELSE LET parsed == PyInt(Strip(outcome.content))
         IN  IF parsed.ok THEN Clamp(parsed.val) ELSE 50

\* The body shared by the five _analyze_* methods: int() of the stripped reply,
\* clamped; any exception (the call's or int()'s) gives the method's default.
ScoreFromOracle(outcome, default) ==
    IF outcome.raised THEN default
    ELSE LET parsed == PyInt(Strip(outcome.content))
         IN  IF parsed.ok THEN Clamp(parsed.val) ELSE default

analyze_confidence(responses, outcome) == ScoreFromOracle(outcome, 75)
analyze_technical_knowledge(responses, role, outcome) == ScoreFromOracle(outcome, 70)
analyze_communication(responses, outcome) == ScoreFromOracle(outcome, 75)
analyze_fluency(responses, outcome) == ScoreFromOracle(outcome, 80)
analyze_base_knowledge(responses, role, outcome) == ScoreFromOracle(outcome, 70)

AnalyzeDimension(dim, responses, role, outcome) ==
    CASE dim = "confidence" -> analyze_confidence(responses, outcome)
      [] dim = "technical" -> analyze_technical_knowledge(responses, role, outcome)
      [] dim = "communication" -> analyze_communication(responses, outcome)
      [] dim = "fluency" -> analyze_fluency(responses, outcome)
      [] dim = "base_knowledge" -> analyze_base_knowledge(responses, role, outcome)


\* ------------------------------------------- _calculate_overall_score
\* The weights of _calculate_overall_score, in hundredths, in the order of the
\* dict literal (the order in which sum() adds the products).
WeightOrder == <<"confidence", "technical", "communication", "fluency", "base_knowledge">>
Weights ==
    [confidence |-> 15, technical |-> 30, communication |-> 25,
     fluency |-> 15, base_knowledge |-> 15]

\* A Python float x is held exactly as the pair [n, e] with
\*     x = (n * 2^55 + e) / (100 * 2^55):
\* n is the value in hundredths that exact arithmetic would give and e is the
\* accumulated binary rounding error, in units of 1/(100 * 2^55).
\* The literals 0.15, 0.30 and 0.25 are the doubles 15/100 - 20u, 30/100 - 40u
\* and 25/100 exactly (u the unit above).
WeightErr ==
    [confidence |-> 0 - 20, technical |-> 0 - 40, communication |-> 0,
     fluency |-> 0 - 20, base_knowledge |-> 0 - 20]

RECURSIVE Pow2(_)
Pow2(k) == IF k = 0 THEN 1 ELSE 2 * Pow2(k - 1)

RECURSIVE Pow2Mod(_, _)
Pow2Mod(k, m) ==
    IF k = 0 THEN 1 % m
    ELSE IF k % 2 = 0 THEN LET h == Pow2Mod(k \div 2, m) IN (h * h) % m
    ELSE (2 * Pow2Mod(k - 1, m)) % m

\* 2^k <= n/100, for k in -4..7
AtLeastPow2(n, k) == IF k >= 0 THEN n >= 100 * Pow2(k) ELSE n * Pow2(0 - k) >= 100
IsPow2(n, k) == IF k >= 0 THEN n = 100 * Pow2(k) ELSE n * Pow2(0 - k) = 100

\* The binary exponent of the float [n, e]: 2^k <= x < 2^(k+1).
FloatExponent(n, e) ==
    LET k == CHOOSE k \in (0 - 4)..7 : AtLeastPow2(n, k) /\ ~AtLeastPow2(n, k + 1)
    IN  IF IsPow2(n, k) /\ e < 0 THEN k - 1 ELSE k

\* The exact real (n * 2^55 + e) / (100 * 2^55) rounded to the nearest double,
\* ties to even (IEEE 754 binary64, 53-bit significand): the doubles of exponent
\* k are the multiples of 2^(k-52), that is of s = 100 * 2^(k+3) units.
FloatRoundTo(n, e, s, r, quotientParity) ==
    IF 2 * r < s THEN [n |-> n, e |-> e - r]
    ELSE IF 2 * r > s THEN [n |-> n, e |-> e + s - r]
    ELSE IF quotientParity = 0 THEN [n |-> n, e |-> e - r]
    ELSE [n |-> n, e |-> e + s - r]

FloatRoundAt(n, e, k) ==
    LET s == 100 * Pow2(k + 3)
        t == ((n % 200) * Pow2Mod(52 - k, 200)) % 200
        r0 == Pow2(k + 3) * (t % 100) + e
    IN  FloatRoundTo(n, e, s, r0 % s, ((t \div 100) + (r0 \div s)) % 2)

FloatRound(n, e) == FloatRoundAt(n, e, FloatExponent(n, e))

\* scores[param] * weights[param]: an int times a double.
FloatMul(score, param) == FloatRound(score * Weights[param], score * WeightErr[param])

\* x + y of two doubles; sum() starts from the int 0, and 0 + y is y.
FloatAdd(x, y) == IF x.n = 0 /\ x.e = 0 THEN y ELSE FloatRound(x.n + y.n, x.e + y.e)

\* sum(scores[param] * weights[param] for param in weights)
RECURSIVE WeightedSum(_, _, _)
WeightedSum(scores, i, acc) ==
    IF i > Len(WeightOrder) THEN acc
    ELSE WeightedSum(scores, i + 1, FloatAdd(acc, FloatMul(scores[WeightOrder[i]], WeightOrder[i])))

\* round(x) of a double: to the nearest int, an exact half to the even one.
PyRound(x) ==
    LET q == x.n \div 100
        rem == x.n % 100
    IN  IF rem < 50 THEN q
        ELSE IF rem > 50 THEN q + 1
        ELSE IF x.e < 0 THEN q
        ELSE IF x.e > 0 THEN q + 1
        ELSE IF q % 2 = 0 THEN q ELSE q + 1

\* A mutant: the sum truncated instead of rounded.
OverallTruncated(scores) == WeightedSum(scores, 1, [n |-> 0, e |-> 0]).n \div 100

calculate_overall_score(scores) == PyRound(WeightedSum(scores, 1, [n |-> 0, e |-> 0]))


\* ------------------------------------------------ _extract_user_responses
\* dict.get(key) is truthy: the key is present and its value is a non-empty string.
HasText(message, key) == key \in DOMAIN message /\ message[key] # <<>>
HasType(message, type) == "type" \in DOMAIN message /\ message["type"] = type

\* A mutant: the text read from "content", the key the stored turns carry.
RECURSIVE ExtractByContent(_)
ExtractByContent(conversation) ==
    IF conversation = <<>> THEN <<>>
    ELSE LET message == Head(conversation)
             rest == ExtractByContent(Tail(conversation))
         IN  IF HasType(message, "user_response") /\ HasText(message, "content")
             THEN <<message["content"]>> \o rest
             ELSE rest

\* A mutant: the loop ends at the first turn that has no type.
RECURSIVE ExtractUntilMalformed(_)
ExtractUntilMalformed(conversation) ==
    IF conversation = <<>> THEN <<>>
    ELSE LET message == Head(conversation)
         IN  IF "type" \notin DOMAIN message THEN <<>>
             ELSE IF HasType(message, "user_response") /\ HasText(message, "transcript")
             THEN <<message["transcript"]>> \o ExtractUntilMalformed(Tail(conversation))
             ELSE ExtractUntilMalformed(Tail(conversation))

RECURSIVE extract_user_responses(_)
extract_user_responses(conversation) ==
    IF conversation = <<>> THEN <<>>
    ELSE LET message == Head(conversation)
             rest == extract_user_responses(Tail(conversation))
         IN  IF HasType(message, "user_response") /\ HasText(message, "transcript")
             THEN <<message["transcript"]>> \o rest
             ELSE rest

\* ----------------------------------------------------------- feedback
\* A JSON value as json.loads gives it: an object (a dict of its keys), or
\* something that is no object (a number, a list, a string).
JsonObject(fields) == [kind |-> "object", fields |-> fields]
JsonOther == [kind |-> "other", fields |-> <<>>]

SumScores(scores) ==
    scores["confidence"] + scores["technical"] + scores["communication"]
        + scores["fluency"] + scores["base_knowledge"]

\* avg_score = sum(scores.values()) / len(scores), compared with 80 and 60.
generate_default_feedback(scores) ==
    IF SumScores(scores) >= 80 * Cardinality(DOMAIN scores)
    THEN JsonObject([
        strengths |-> <<"Strong overall performance", "Good technical understanding",
                        "Clear communication">>,
        improvements |-> <<"Continue refining skills", "Practice complex scenarios">>,
        detailedFeedback |-> "Excellent interview performance"])
    ELSE IF SumScores(scores) >= 60 * Cardinality(DOMAIN scores)
    THEN JsonObject([
        strengths |-> <<"Shows potential", "Basic understanding demonstrated",
                        "Willing to engage">>,
        improvements |-> <<"Enhance technical knowledge", "Improve communication clarity",
                           "Build confidence">>,
        detailedFeedback |-> "Good foundation with room for improvement"])
    ELSE JsonObject([
        strengths |-> <<"Shows willingness to learn", "Participates in discussion">>,
        improvements |-> <<"Significant technical skill development needed",
                           "Improve communication skills", "Build confidence">>,
        detailedFeedback |-> "Requires focused preparation and skill development"])

\* A strength from 75 up, which _parse_feedback_text does not have.
StrengthAt75(scores, dim, text) == IF scores[dim] >= 75 THEN <<text>> ELSE <<>>

\* The strength or improvement one dimension contributes in _parse_feedback_text.
Strength(scores, dim, text) == IF scores[dim] >= 80 THEN <<text>> ELSE <<>>
Improvement(scores, dim, text) == IF scores[dim] < 60 THEN <<text>> ELSE <<>>

parse_feedback_text(text, scores) ==
    LET strengths ==
            Strength(scores, "confidence", "Shows strong confidence in responses")
            \o Strength(scores, "technical", "Demonstrates solid technical knowledge")
            \o Strength(scores, "communication",
                        "Excellent communication and articulation skills")
        improvements ==
            Improvement(scores, "confidence",
                        "Work on building confidence and assertiveness")
            \o Improvement(scores, "technical",
                           "Enhance technical skills and knowledge base")
            \o Improvement(scores, "communication",
                           "Improve communication clarity and organization")
    IN  JsonObject([
            strengths |-> IF strengths # <<>> THEN strengths
                          ELSE <<"Shows potential in interview responses">>,
            improvements |-> IF improvements # <<>> THEN improvements
                             ELSE <<"Continue practicing interview skills">>,
            detailedFeedback |-> IF text # <<>> THEN text
                                 ELSE <<"Overall performance shows room for growth with continued practice.">>])

\* The feedback oracle's outcome also carries what json.loads makes of the
\* stripped reply: parses = FALSE is json.loads raising.
FeedbackRaise == [raised |-> TRUE, content |-> <<>>, parses |-> FALSE, json |-> JsonOther]
FeedbackText(content) ==
    [raised |-> FALSE, content |-> content, parses |-> FALSE, json |-> JsonOther]
FeedbackJson(content, json) ==
    [raised |-> FALSE, content |-> content, parses |-> TRUE, json |-> json]

generate_comprehensive_feedback(scores, responses, role, outcome) ==
    IF outcome.raised THEN generate_default_feedback(scores)
    ELSE LET feedback_text == Strip(outcome.content)
         IN  IF outcome.parses THEN outcome.json
             ELSE parse_feedback_text(feedback_text, scores)

\* ------------------------------------------------ _generate_default_scores
DefaultDimensionScore == 50

generate_default_scores(reason) ==
    [overallScore |-> 50,
     scores |-> [d \in Dimensions |-> DefaultDimensionScore],
     feedback |-> JsonObject([
         strengths |-> <<"Participated in interview process">>,
         improvements |-> <<"Unable to analyze due to insufficient data">>,
         detailedFeedback |-> <<"Analysis could not be completed: ", reason>>]),
     reason |-> reason,
     oracle_calls |-> {}]

\* ------------------------------------------------ analyze_session_scores
\* The value of a dict key that should hold a list: a list, or None.
PyNone == [is_list |-> FALSE, items |-> <<>>]
PyList(items) == [is_list |-> TRUE, items |-> items]

OracleCalls == Dimensions \cup {"feedback"}

\* The dict's user_role, "Software Engineer" when the key is absent.
RoleOf(data) ==
    IF "user_role" \in DOMAIN data THEN data["user_role"] ELSE "Software Engineer"

\* A mutant: base knowledge rated from the technical call's reply.
DimensionScoresShared(user_responses, role, outcomes) ==
    [confidence |-> analyze_confidence(user_responses, outcomes["confidence"]),
     technical |-> analyze_technical_knowledge(user_responses, role, outcomes["technical"]),
     communication |-> analyze_communication(user_responses, outcomes["communication"]),
     fluency |-> analyze_fluency(user_responses, outcomes["fluency"]),
     base_knowledge |-> analyze_base_knowledge(user_responses, role, outcomes["technical"])]

\* The scores dict of analyze_session_scores: one oracle call per dimension.
DimensionScores(user_responses, role, outcomes) ==
    [confidence |-> analyze_confidence(user_responses, outcomes["confidence"]),
     technical |-> analyze_technical_knowledge(user_responses, role, outcomes["technical"]),
     communication |-> analyze_communication(user_responses, outcomes["communication"]),
     fluency |-> analyze_fluency(user_responses, outcomes["fluency"]),
     base_knowledge |->
        analyze_base_knowledge(user_responses, role, outcomes["base_knowledge"])]

\* The try body of analyze_session_scores once the responses are extracted.
ReportOf(scores, user_responses, role, outcomes) ==
    [overallScore |-> calculate_overall_score(scores),
     scores |-> scores,
     feedback |->
        generate_comprehensive_feedback(scores, user_responses, role, outcomes["feedback"]),
     reason |-> "",
     oracle_calls |-> OracleCalls]

AnalyzeResponses(data, user_responses, outcomes) ==
    ReportOf(DimensionScores(user_responses, RoleOf(data), outcomes),
             user_responses, RoleOf(data), outcomes)

\* The local user_responses of analyze_session_scores, which every oracle prompt
\* is built from: nothing when the method raises before it is assigned.
UserResponsesOf(data) ==
    LET conversation_history ==
            IF "conversation" \in DOMAIN data THEN data["conversation"] ELSE PyList(<<>>)
    IN  IF conversation_history.is_list
        THEN extract_user_responses(conversation_history.items)
        ELSE <<>>

\* session_data.get("conversation", []) is iterated: None raises TypeError, which
\* the method's except turns into the default report.
analyze_session_scores(data, outcomes) ==
    LET conversation_history ==
            IF "conversation" \in DOMAIN data THEN data["conversation"] ELSE PyList(<<>>)
    IN  IF ~conversation_history.is_list
        THEN generate_default_scores("Analysis error")
        ELSE LET user_responses == extract_user_responses(conversation_history.items)
             IN  IF user_responses = <<>>
                 THEN generate_default_scores("No user responses found")
                 ELSE AnalyzeResponses(data, user_responses, outcomes)


\* ------------------------------------------------ SessionAnalyzer.__init__
\* The constructor assigns self.client, the openai module, and sets the key
\* and the endpoint on that module (api_key and api_base here are the
\* client's), and does nothing else: attributes is the object's __dict__ keys.
NotConstructed == [constructed |-> FALSE, api_key |-> "", api_base |-> "", attributes |-> {}]

SessionAnalyzerInit(groq_api_key) ==
    [constructed |-> TRUE,
     api_key |-> groq_api_key,
     api_base |-> "https://api.groq.com/openai/v1",
     attributes |-> {"client"}]

\* os.getenv("GROQ_API_KEY"): the key, or None when the variable is not set.
ApiKeys == {"gsk_key", "None"}

\* ------------------------------------------------------------- inputs
\* The characters an oracle reply is drawn from: ASCII digits and a digit of
\* another script, a space and a carriage return, signs, an underscore, a letter.
ReplyChars == {"0", "1", " ", "\r", "U+0663", "-", "+", "_", "x"}
OracleOutcomes == {Raise} \cup {Reply(chars) : chars \in SeqsUpTo(ReplyChars, MaxReplyLen)}

\* The oracle outcomes a whole analysis draws from, per dimension: the call
\* raises, or replies with a number above or below the range.
DimensionOutcomes == {Raise, Reply(<<"1", "5", "0">>), Reply(<<"-", "5">>)}
FeedbackOutcomes ==
    {FeedbackRaise,
     FeedbackText(<<"Good", " ", "answers">>),
     FeedbackJson(<<"{...}">>,
                  JsonObject([strengths |-> <<"s1">>, improvements |-> <<"i1">>,
                              detailedFeedback |-> "d"])),
     FeedbackJson(<<"{empty lists}">>,
                  JsonObject([strengths |-> <<>>, improvements |-> <<>>,
                              detailedFeedback |-> ""])),
     FeedbackJson(<<"[]">>, JsonOther)}

\* Conversation turns: user responses with text under "transcript"
\* (what the analyzer reads), with an empty transcript, with the text under
\* "content" (what mongo.py stores), an AI question, and a turn with no fields.
EmptyDict == [k \in {} |-> <<>>]
TurnSamples ==
    {[type |-> "user_response", transcript |-> <<"a">>],
     [type |-> "user_response", transcript |-> <<"b">>, content |-> <<"b">>],
     [type |-> "user_response", transcript |-> <<>>],
     [type |-> "user_response", content |-> <<"c">>],
     [type |-> "ai_question", content |-> <<"q">>],
     EmptyDict}
Conversations == SeqsUpTo(TurnSamples, MaxTurns)
SessionDataSamples ==
    {[conversation |-> PyList(c)] : c \in Conversations}
    \cup {[conversation |-> PyList(c), user_role |-> "Data Scientist"] :
            c \in SeqsUpTo(TurnSamples, 1)}
    \cup {[conversation |-> PyNone], EmptyDict}

\* The response lists handed to one _analyze_* call: without and with a filler word.
ResponseSamples == {<<<<"a">>>>, <<<<"um", "a">>>>}

\* Dimension scores for _calculate_overall_score: the ends of the range and
\* values whose weighted sums fall on, just below and just above a half.
ScoreSamples == {1, 2, 36, 50, 58, 97, 100}

\* ------------------------------------------------------------ idle values
IdleCall ==
    [dim |-> "confidence", responses |-> <<>>, outcome |-> Raise, done |-> TRUE, score |-> 0]
IdleResult ==
    [done |-> TRUE, report |-> generate_default_scores("idle"), user_responses |-> <<>>]
IdleOverall == [scores |-> [d \in Dimensions |-> 1], done |-> TRUE, overall |-> 0]
NoOutcomes == [c \in {} |-> Raise]
IdleFeedback ==
    [scores |-> [d \in Dimensions |-> 1], text |-> <<>>, done |-> TRUE,
     feedback |-> JsonOther]
\* The service before any request: an empty collection, no session, no response.
NoBody == [detail |-> "none"]
EmptyStore == [k \in {} |-> <<>>]
NoResponse ==
    [endpoint |-> "none", session_id |-> 0, status |-> 0, db_calls |-> <<>>, body |-> NoBody,
     notes |-> [analysed |-> FALSE, persisted |-> "not_attempted"]]

\* _create_indexes: four create_index calls in one try block, the first two
\* for the unique indexes on sessionId and on roundId. A call that raises ends
\* the block, the exception is logged and the constructor goes on; failed_at
\* is the call that raised (0: none). The value is the set of unique indexes.
CreateIndexCalls == 4
create_indexes(failed_at) ==
    {<<"sessionId", "roundId">>[i] : i \in {j \in 1..2 : failed_at = 0 \/ j < failed_at}}

\* ------------------------------------------------------------ SpecOracle
\* One _analyze_* call: the dimension and the oracle's outcome are the inputs.
InitOracle ==
    /\ mongo = EmptyStore /\ sessions = EmptyStore /\ response = NoResponse
    /\ pending = <<>>
    /\ indexes = create_indexes(0) /\ shadowed = <<>>
    /\ runs = <<>> /\ feedback_call = IdleFeedback
    /\ call \in [dim : Dimensions, responses : ResponseSamples, outcome : OracleOutcomes,
                 done : {FALSE}, score : {0}]
    /\ session_data = EmptyDict
    /\ oracle = NoOutcomes
    /\ analysis_result = IdleResult
    /\ analyzer = SessionAnalyzerInit("gsk_key")
    /\ overall_call = IdleOverall

CallDimension ==
    /\ ~call.done
    /\ call' = [call EXCEPT !.done = TRUE,
                            !.score = AnalyzeDimension(call.dim, call.responses,
                                                       "Software Engineer", call.outcome)]
    /\ UNCHANGED <<session_data, oracle, analysis_result, analyzer, overall_call, other_vars>>

NextOracle == CallDimension
SpecOracle == InitOracle /\ [][NextOracle]_vars

\* ------------------------------------------------------------ SpecOverall
InitOverall ==
    /\ mongo = EmptyStore /\ sessions = EmptyStore /\ response = NoResponse
    /\ pending = <<>>
    /\ indexes = create_indexes(0) /\ shadowed = <<>>
    /\ runs = <<>> /\ feedback_call = IdleFeedback
    /\ overall_call \in [scores : [Dimensions -> ScoreSamples], done : {FALSE}, overall : {0}]
    /\ call = IdleCall
    /\ session_data = EmptyDict
    /\ oracle = NoOutcomes
    /\ analysis_result = IdleResult
    /\ analyzer = SessionAnalyzerInit("gsk_key")

CalculateOverall ==
    /\ ~overall_call.done
    /\ overall_call' = [overall_call EXCEPT
                            !.done = TRUE,
                            !.overall = calculate_overall_score(overall_call.scores)]
    /\ UNCHANGED <<call, session_data, oracle, analysis_result, analyzer, other_vars>>

NextOverall == CalculateOverall
SpecOverall == InitOverall /\ [][NextOverall]_vars

\* ------------------------------------------------------------ SpecAnalyzer
\* The analyzer is constructed, then analyze_session_scores runs once on a
\* session dict; the oracle's outcomes are chosen as the run makes its calls.
InitAnalyzer ==
    /\ mongo = EmptyStore /\ sessions = EmptyStore /\ response = NoResponse
    /\ pending = <<>>
    /\ indexes = create_indexes(0) /\ shadowed = <<>>
    /\ runs = <<>> /\ feedback_call = IdleFeedback
    /\ session_data \in SessionDataSamples
    /\ oracle = NoOutcomes
    /\ analysis_result = [done |-> FALSE, report |-> generate_default_scores("idle"),
                          user_responses |-> <<>>]
    /\ analyzer = NotConstructed
    /\ call = IdleCall
    /\ overall_call = IdleOverall

Construct ==
    /\ ~analyzer.constructed
    /\ \E key \in ApiKeys : analyzer' = SessionAnalyzerInit(key)
    /\ UNCHANGED <<call, session_data, oracle, analysis_result, overall_call, other_vars>>

Analyze ==
    /\ analyzer.constructed
    /\ ~analysis_result.done
    /\ \E dims \in [Dimensions -> DimensionOutcomes], f \in FeedbackOutcomes :
        LET outcomes == [c \in OracleCalls |-> IF c = "feedback" THEN f ELSE dims[c]]
        IN  \E report \in {analyze_session_scores(session_data, outcomes)} :
                /\ analysis_result' = [done |-> TRUE, report |-> report,
                                       user_responses |-> UserResponsesOf(session_data)]
                /\ oracle' = [c \in report.oracle_calls |-> outcomes[c]]
    /\ UNCHANGED <<call, session_data, analyzer, overall_call, other_vars>>

NextAnalyzer == Construct \/ Analyze
SpecAnalyzer == InitAnalyzer /\ [][NextAnalyzer]_vars


\* ------------------------------------------------------------ SpecRepeat
\* One analyzer analyses the same session dict again and again. Each run has
\* its own oracle outcomes: every call replying, every call failing in one of
\* the ways a call fails (the request raises, the reply is empty, the reply
\* holds no number), or the calls failing in different ways.
AllRaise == [c \in OracleCalls |-> IF c = "feedback" THEN FeedbackRaise ELSE Raise]
AllReply ==
    [c \in OracleCalls |->
        IF c = "feedback" THEN FeedbackText(<<"Good", " ", "answers">>)
        ELSE Reply(<<"1", "0">>)]
RepeatOutcomes == {AllRaise, AllReply}
FailureOutcomes == {Raise, Reply(<<>>), Reply(<<"x">>)}
AllFail(outcome) == [c \in OracleCalls |-> IF c = "feedback" THEN FeedbackRaise ELSE outcome]
MixedFail ==
    [confidence |-> Raise, technical |-> Reply(<<>>), communication |-> Reply(<<"x">>),
     fluency |-> Raise, base_knowledge |-> Reply(<<"x">>), feedback |-> FeedbackRaise]
RerunOutcomes == {AllFail(o) : o \in FailureOutcomes} \cup {MixedFail, AllReply}

\* One call of analyze_session_scores at clock reading now: the method reads
\* the clock for analysis_timestamp only, reads self for the client that
\* makes the oracle calls (whose outcomes are given here) and assigns nothing
\* to self or to the dict. oracle keeps the outcomes the run met.
AnalyzerCall(now, data, outcomes) ==
    LET report == analyze_session_scores(data, outcomes)
    IN  [analysis_timestamp |-> now,
         oracle |-> outcomes,
         scores |-> report.scores,
         overallScore |-> report.overallScore,
         feedback |-> report.feedback]

InitRepeat ==
    /\ mongo = EmptyStore /\ sessions = EmptyStore /\ response = NoResponse
    /\ pending = <<>>
    /\ indexes = create_indexes(0) /\ shadowed = <<>>
    /\ feedback_call = IdleFeedback
    /\ runs = <<>>
    /\ session_data \in SessionDataSamples
    /\ analyzer = SessionAnalyzerInit("gsk_key")
    /\ oracle = NoOutcomes
    /\ analysis_result = IdleResult
    /\ call = IdleCall
    /\ overall_call = IdleOverall

\* datetime.now() moves on with every run.
Reanalyze ==
    /\ Len(runs) < MaxRuns
    /\ \E outcomes \in RerunOutcomes :
        runs' = Append(runs, AnalyzerCall(Len(runs) + 1, session_data, outcomes))
    /\ UNCHANGED <<call, session_data, oracle, analysis_result, analyzer, overall_call,
                   feedback_call, mongo, sessions, response, pending, store_vars>>

NextRepeat == Reanalyze
SpecRepeat == InitRepeat /\ [][NextRepeat]_vars

\* ---------------------------------------------------------- SpecFeedback
\* _parse_feedback_text applied to scores on both sides of its thresholds and of
\* the thresholds the documentation names.
ThresholdScores == {59, 60, 74, 75, 79, 80}
FeedbackTexts == {<<>>, <<"Good", " ", "answers">>}

InitFeedback ==
    /\ mongo = EmptyStore /\ sessions = EmptyStore /\ response = NoResponse
    /\ pending = <<>>
    /\ indexes = create_indexes(0) /\ shadowed = <<>>
    /\ runs = <<>>
    /\ session_data = PyNone
    /\ analyzer = SessionAnalyzerInit("gsk_key")
    /\ oracle = NoOutcomes
    /\ analysis_result = IdleResult
    /\ call = IdleCall
    /\ overall_call = IdleOverall
    /\ \E scores \in [Dimensions -> ThresholdScores], text \in FeedbackTexts :
        feedback_call = [scores |-> scores, text |-> text, done |-> FALSE,
                         feedback |-> JsonOther]

ParseFeedback ==
    /\ ~feedback_call.done
    /\ feedback_call' = [feedback_call EXCEPT
            !.done = TRUE,
            !.feedback = parse_feedback_text(feedback_call.text, feedback_call.scores)]
    /\ UNCHANGED <<call, session_data, oracle, analysis_result, analyzer, overall_call,
                   runs, mongo, sessions, response, pending, store_vars>>

NextFeedback == ParseFeedback
SpecFeedback == InitFeedback /\ [][NextFeedback]_vars

\* ======================================================================
\* The interview service: mongo.py and the endpoints of main3.py
\* ======================================================================
\* An optional value of a request or a document field: None, or a value.
\* Texts are sequences of tokens, a token being a word or a whitespace run.
None == [is_none |-> TRUE, value |-> <<>>]
Some(v) == [is_none |-> FALSE, value |-> v]

\* Python truthiness of an optional text and of an optional integer.
TruthyText(t) == ~t.is_none /\ t.value # <<>>
TruthyInt(n) == ~n.is_none /\ n.value # 0

\* d[k] = v on a dict.
SetKey(d, k, v) == [x \in DOMAIN d \cup {k} |-> IF x = k THEN v ELSE d[x]]
DelKey(d, k) == [x \in DOMAIN d \ {k} |-> d[x]]

\* What a method of InterviewDataCollection gives back: its return value,
\* the collection afterwards and the collection operations it issued.
DbResult(value, db, calls) == [value |-> value, db |-> db, calls |-> calls]

\* ---------------------------------------- InterviewDataCollection
\* What create_interview_session gives back: as DbResult, and beside, the
\* document when it is stored beside an earlier one with the same sessionId.
Inserted(value, db, calls, beside) ==
    [value |-> value, db |-> db, calls |-> calls, beside |-> beside]

\* insert_one raises on a driver error, and DuplicateKeyError when a unique
\* index holds the document's sessionId or roundId already; both give None
\* (FALSE here). A field without a unique index takes any value again.
create_interview_session(db, unique, session_id, round_id, user_role, insert_ok) ==
    LET interview_data ==
            [roundId |-> round_id,
             sessionId |-> session_id,
             transcript |-> [user_role |-> user_role,
                             conversation |-> <<>>,
                             session_metadata |-> [total_questions |-> 0,
                                                   total_responses |-> 0]],
             sentimentAnalysis |-> None,
             confidenceScore |-> None,
             communicationScore |-> None,
             technicalScore |-> None]
        duplicate ==
            \/ "sessionId" \in unique /\ session_id \in DOMAIN db
            \/ "roundId" \in unique /\ \E s \in DOMAIN db : db[s].roundId = round_id
    IN  IF ~insert_ok \/ duplicate
        THEN Inserted(FALSE, db, <<"insert_one">>, <<>>)
        ELSE IF session_id \in DOMAIN db
        THEN Inserted(TRUE, db, <<"insert_one">>, <<interview_data>>)
        ELSE Inserted(TRUE, SetKey(db, session_id, interview_data), <<"insert_one">>, <<>>)

\* A mutant: the entry written with $set, in place of the conversation.
PushEntryReplacing(db, session_id, entry, counter, update_ok) ==
    IF ~update_ok \/ session_id \notin DOMAIN db
    THEN DbResult(FALSE, db, <<"update_one">>)
    ELSE DbResult(TRUE,
                  SetKey(db, session_id,
                         [db[session_id] EXCEPT !.transcript.conversation = <<entry>>]),
                  <<"update_one">>)

\* update_one with $push on transcript.conversation and $inc on one counter of
\* transcript.session_metadata (counter "" increments nothing): modified_count
\* is 0 when no document has the sessionId; a driver error is caught.
PushEntry(db, session_id, entry, counter, update_ok) ==
    IF ~update_ok \/ session_id \notin DOMAIN db
    THEN DbResult(FALSE, db, <<"update_one">>)
    ELSE LET doc == db[session_id]
             metadata == doc.transcript.session_metadata
             pushed ==
                [doc EXCEPT
                    !.transcript.conversation = Append(@, entry),
                    !.transcript.session_metadata =
                        IF counter = "" THEN metadata
                        ELSE [metadata EXCEPT ![counter] = @ + 1]]
         IN  DbResult(TRUE, SetKey(db, session_id, pushed), <<"update_one">>)

\* A mutant: the greeting counted as a question.
AddGreetingCounted(db, session_id, greeting_text, update_ok) ==
    PushEntry(db, session_id,
              [type |-> "ai_greeting", speaker |-> "ai", content |-> greeting_text,
               metadata |-> [message_type |-> "greeting", question_number |-> 0]],
              "total_questions", update_ok)

add_greeting_to_transcript(db, session_id, greeting_text, update_ok) ==
    PushEntry(db, session_id,
              [type |-> "ai_greeting", speaker |-> "ai", content |-> greeting_text,
               metadata |-> [message_type |-> "greeting", question_number |-> 0]],
              "", update_ok)

add_ai_question_to_transcript(db, session_id, question_text, question_number, difficulty_level, update_ok) ==
    PushEntry(db, session_id,
              [type |-> "ai_question", speaker |-> "ai", content |-> question_text,
               metadata |-> [message_type |-> "question",
                             question_number |-> question_number,
                             difficulty_level |-> difficulty_level]],
              "total_questions", update_ok)

\* The text is stored as the request carried it, unstripped.
add_user_response_to_transcript(db, session_id, user_transcript, question_number, update_ok) ==
    PushEntry(db, session_id,
              [type |-> "user_response", speaker |-> "user", content |-> user_transcript,
               metadata |-> [message_type |-> "response",
                             question_number |-> question_number]],
              "total_responses", update_ok)

\* find_one by sessionId; an exception of the driver is caught and gives None,
\* the same value as no document. When no document is found the method also
\* counts and samples the collection.
NoDocument == [found |-> FALSE, doc |-> <<>>]
\* A mutant: a lookup that inserts an empty document for an id it does not find.
GetOrCreateSession(db, session_id, find_ok) ==
    IF session_id \in DOMAIN db
    THEN DbResult([found |-> TRUE, doc |-> db[session_id]], db, <<"find_one">>)
    ELSE DbResult(NoDocument,
                  create_interview_session(db, {"sessionId", "roundId"}, session_id,
                                           <<"ObjectId", session_id>>,
                                           "", TRUE).db,
                  <<"find_one", "insert_one">>)

\* A mutant: find_one without the sessionId filter gives the first document.
FindFirstDocument(db, session_id, find_ok) ==
    IF ~find_ok THEN DbResult(NoDocument, db, <<"find_one">>)
    ELSE IF DOMAIN db # {}
    THEN DbResult([found |-> TRUE,
                   doc |-> db[CHOOSE s \in DOMAIN db : \A t \in DOMAIN db : s <= t]],
                  db, <<"find_one">>)
    ELSE DbResult(NoDocument, db, <<"find_one", "count_documents", "find">>)

get_interview_session(db, session_id, find_ok) ==
    IF ~find_ok THEN DbResult(NoDocument, db, <<"find_one">>)
    ELSE IF session_id \in DOMAIN db
    THEN DbResult([found |-> TRUE, doc |-> db[session_id]], db, <<"find_one">>)
    ELSE DbResult(NoDocument, db, <<"find_one", "count_documents", "find">>)

\* The keyword parameters update_session_scores declares; a call with any other
\* keyword raises TypeError before the body runs.
ScoreParameters ==
    {"session_id", "sentiment_analysis", "confidence_score", "communication_score",
     "technical_score"}
Raised(db) == [raised |-> TRUE, value |-> FALSE, db |-> db, calls |-> <<>>]
Returned(r) == [raised |-> FALSE, value |-> r.value, db |-> r.db, calls |-> r.calls]

\* An argument of a call: None, or Some(v) for the value v. A keyword the call
\* leaves out has the parameter's default, None.
ScoreArgument(kwargs, arg) == IF arg \in DOMAIN kwargs THEN kwargs[arg] ELSE None

\* A field after the $set: sentimentAnalysis is set when the argument is truthy
\* (a dict with at least one key), a score when the argument is not None; a
\* field that is not set keeps the document's value.
ScoreField(doc, field, kwargs, arg) ==
    LET given == ScoreArgument(kwargs, arg)
        written == IF arg = "sentiment_analysis"
                   THEN ~given.is_none /\ DOMAIN given.value # {}
                   ELSE ~given.is_none
    IN  IF written THEN given ELSE doc[field]

update_session_scores(db, kwargs, update_ok) ==
    IF ~(DOMAIN kwargs \subseteq ScoreParameters) THEN Raised(db)
    ELSE IF ~update_ok \/ kwargs["session_id"] \notin DOMAIN db
    THEN Returned(DbResult(FALSE, db, <<"update_one">>))
    ELSE LET doc == db[kwargs["session_id"]]
             updated ==
                [doc EXCEPT
                    !.sentimentAnalysis = ScoreField(doc, "sentimentAnalysis", kwargs,
                                                     "sentiment_analysis"),
                    !.confidenceScore = ScoreField(doc, "confidenceScore", kwargs,
                                                   "confidence_score"),
                    !.communicationScore = ScoreField(doc, "communicationScore", kwargs,
                                                      "communication_score"),
                    !.technicalScore = ScoreField(doc, "technicalScore", kwargs,
                                                  "technical_score")]
         IN  Returned(DbResult(TRUE, SetKey(db, kwargs["session_id"], updated),
                               <<"update_one">>))

\* finalize_session reads the document and, when there is one, sets the
\* session's duration and end time (and the recording's URL when one is
\* given) with $set; every exception is caught and gives False.
finalize_session(db, session_id, audio_recording_url, find_ok, update_ok) ==
    LET got == get_interview_session(db, session_id, find_ok)
    IN  IF ~got.value.found THEN DbResult(FALSE, db, got.calls)
        ELSE IF ~update_ok THEN DbResult(FALSE, db, got.calls \o <<"update_one">>)
        ELSE LET doc == db[session_id]
                 metadata == SetKey(doc.transcript.session_metadata,
                                    "session_duration", "elapsed")
                 transcript == SetKey(SetKey(doc.transcript, "session_metadata", metadata),
                                      "session_end", "now")
                 ended == SetKey(doc, "transcript", transcript)
                 updated == IF TruthyText(audio_recording_url)
                            THEN SetKey(ended, "audioRecording", audio_recording_url)
                            ELSE ended
             IN  DbResult(TRUE, SetKey(db, session_id, updated),
                          got.calls \o <<"update_one">>)

\* ---------------------------------------------- InterviewDataManager
handle_greeting_creation(db, unique, session_id, user_role, greeting_text, round_id, insert_ok, update_ok) ==
    LET created == create_interview_session(db, unique, session_id, round_id, user_role,
                                            insert_ok)
        greeted == add_greeting_to_transcript(created.db, session_id, greeting_text,
                                              update_ok)
    IN  IF ~created.value THEN created
        ELSE Inserted(greeted.value, greeted.db, created.calls \o greeted.calls,
                      created.beside)

\* A mutant: the question is stored whether or not the response was.
HandleAIResponseRegardless(db, session_id, question_text, question_number, difficulty_level, user_transcript, response_ok, question_ok) ==
    LET responded ==
            IF TruthyText(user_transcript) /\ Strip(user_transcript.value) # <<>>
            THEN add_user_response_to_transcript(db, session_id, user_transcript.value,
                                                 question_number - 1, response_ok)
            ELSE DbResult(TRUE, db, <<>>)
        asked == add_ai_question_to_transcript(responded.db, session_id, question_text,
                                               question_number, difficulty_level,
                                               question_ok)
    IN  DbResult(responded.value /\ asked.value, asked.db, responded.calls \o asked.calls)

\* The user's response is stored first, under the previous question's number;
\* the question is stored only if that succeeded.
handle_ai_response(db, session_id, question_text, question_number, difficulty_level, user_transcript, response_ok, question_ok) ==
    LET responded ==
            IF TruthyText(user_transcript) /\ Strip(user_transcript.value) # <<>>
            THEN add_user_response_to_transcript(db, session_id, user_transcript.value,
                                                 question_number - 1, response_ok)
            ELSE DbResult(TRUE, db, <<>>)
        asked == add_ai_question_to_transcript(responded.db, session_id, question_text,
                                               question_number, difficulty_level,
                                               question_ok)
    IN  IF ~responded.value THEN responded
        ELSE DbResult(asked.value, asked.db, responded.calls \o asked.calls)

\* ------------------------------------------------------------ main3.py
\* What an endpoint leaves behind: the collection, the sessions dict and the
\* HTTP response (status, the collection operations issued, the JSON body).
Served(db, mem, status, calls, body) ==
    [mongo |-> db, sessions |-> mem, status |-> status, db_calls |-> calls, body |-> body]
Failure(detail) == [detail |-> detail]

\* A handler whose try block raised an HTTPException and whose except Exception
\* caught it (HTTPException is an Exception): the client gets the handler's own
\* 500; the notes keep what was raised inside.
HttpRaised(status, detail) ==
    [analysed |-> FALSE, persisted |-> "not_attempted",
     raised |-> [status |-> status, detail |-> detail]]
ExceptException(db, mem, status, detail, handler_detail) ==
    [mongo |-> db, sessions |-> mem, status |-> 500, db_calls |-> <<>>,
     body |-> Failure(handler_detail), notes |-> HttpRaised(status, detail)]

\* logger is the module fastapi.logger (main3.py imports it from fastapi); it
\* has no attribute "warning", so logger.warning(...) raises AttributeError.
LoggerAttributes == {"logger", "logging"}
LoggerWarningRaises == "warning" \notin LoggerAttributes

\* str(ObjectId()): a string no earlier call has given, here tagged by the
\* session it is generated for.
GeneratedRound(session_id) == <<"ObjectId", session_id>>

\* POST /greeting. speak_text swallows its errors, so a failed synthesis shows
\* as the missing audio file; every exception leaves as a 500.
create_greeting(db, unique, mem, session_id, request, audio_ok, insert_ok, update_ok) ==
    LET round_id ==
            IF ~TruthyText(request.round_id)
            THEN GeneratedRound(session_id)
            ELSE request.round_id.value
        greeting_text ==
            <<"Hello", request.user_name, "welcome to your mock interview for the role of",
              request.user_role>>
        stored == handle_greeting_creation(db, unique, session_id, request.user_role,
                                           greeting_text, round_id, insert_ok, update_ok)
        session ==
            [user_name |-> request.user_name,
             user_role |-> request.user_role,
             previous_answers |-> <<>>,
             current_question |-> 0,
             round_id |-> round_id,
             db_stored |-> stored.value]
    IN  IF ~audio_ok
        THEN Served(db, mem, 500, <<>>, Failure("Failed to create greeting"))
        ELSE IF ~stored.value /\ LoggerWarningRaises
        THEN Served(stored.db, mem, 500, stored.calls, Failure("Failed to create greeting"))
        ELSE Served(stored.db, SetKey(mem, session_id, session), 200, stored.calls,
                    [session_id |-> session_id, round_id |-> round_id,
                     greeting_text |-> greeting_text, db_stored |-> stored.value])

\* difficulty_levels[min(current_question_num - 1, 4)]: a Python list index,
\* negative indices count from the end, an index below -5 raises IndexError.
DifficultyLevels == <<"basic", "intermediate", "moderate", "advanced", "expert">>
DifficultyIndexOk(current_question_num) ==
    Min(current_question_num - 1, 4) >= -Len(DifficultyLevels)
Difficulty(current_question_num) ==
    LET i == Min(current_question_num - 1, 4)
    IN  IF i >= 0 THEN DifficultyLevels[i + 1]
        ELSE DifficultyLevels[Len(DifficultyLevels) + i + 1]

\* POST /ai-response. The session dict is changed in place, so what the
\* handler did before an exception stays; get_session's 404 is caught by the
\* handler's except Exception and leaves as a 500.
generate_ai_response(db, mem, request, generated, audio_ok, response_ok, question_ok) ==
    IF request.session_id \notin DOMAIN mem
    THEN ExceptException(db, mem, 404, "Session not found",
                         "Failed to generate AI response")
    ELSE
    LET session == mem[request.session_id]
        current_question_num ==
            IF TruthyInt(request.question_number) THEN request.question_number.value
            ELSE session.current_question + 1
        answered ==
            IF TruthyText(request.user_transcript)
               /\ Strip(request.user_transcript.value) # <<>>
            THEN Append(session.previous_answers,
                        [question_number |-> current_question_num - 1,
                         answer |-> Strip(request.user_transcript.value)])
            ELSE session.previous_answers
        numbered == [session EXCEPT !.current_question = current_question_num,
                                    !.previous_answers = answered]
        question_text ==
            IF Strip(generated) # <<>> THEN Strip(generated)
            ELSE <<"Can you tell me about your experience with", session.user_role,
                   "technologies?">>
        questions ==
            IF "generated_questions" \in DOMAIN session THEN session.generated_questions
            ELSE <<>>
        asked == SetKey(numbered, "generated_questions",
                        Append(questions, [question_number |-> current_question_num,
                                           question |-> question_text]))
        stored == handle_ai_response(db, request.session_id, question_text,
                                     current_question_num,
                                     Difficulty(current_question_num),
                                     request.user_transcript, response_ok, question_ok)
        failure == Failure("Failed to generate AI response")
    IN  IF ~DifficultyIndexOk(current_question_num)
        THEN Served(db, SetKey(mem, request.session_id, numbered), 500, <<>>, failure)
        ELSE IF ~audio_ok
        THEN Served(db, SetKey(mem, request.session_id, asked), 500, <<>>, failure)
        ELSE IF ~stored.value /\ LoggerWarningRaises
        THEN Served(stored.db, SetKey(mem, request.session_id, asked), 500, stored.calls,
                    failure)
        ELSE Served(stored.db,
                    SetKey(mem, request.session_id,
                           SetKey(asked, "db_stored", stored.value)),
                    200, stored.calls,
                    [session_id |-> request.session_id,
                     question_number |-> current_question_num,
                     question_text |-> question_text,
                     difficulty_level |-> Difficulty(current_question_num),
                     db_stored |-> stored.value])

\* DELETE /session/{session_id}
end_session(db, mem, session_id) ==
    Served(db, IF session_id \in DOMAIN mem THEN DelKey(mem, session_id) ELSE mem,
           200, <<>>, [message |-> "Session ended successfully"])

\* POST /analyze-answer up to `await audio_file.read()`: the session is looked
\* up and the answer's file opened in the session's folder; the handler answers
\* at once when either fails, and otherwise waits for the upload while other
\* requests are served.
AwaitUpload(db, mem, session_id, question_number, open_ok) ==
    IF session_id \notin DOMAIN mem
    THEN SetKey(ExceptException(db, mem, 404, "Session not found",
                                "Failed to analyze answer"),
                "suspended", FALSE)
    ELSE IF ~open_ok
    THEN SetKey(Served(db, mem, 500, <<>>, Failure("Failed to analyze answer")),
                "suspended", FALSE)
    ELSE SetKey(Served(db, mem, 0, <<>>, NoBody), "suspended", TRUE)

\* POST /analyze-answer from the upload on: main3.sessions is not read again,
\* the upload is written to the file; a failed transcription or feature
\* extraction is printed and leaves its field empty.
analyze_user_answer(db, mem, session_id, question_number, save_ok, transcript, nervousness) ==
    IF ~save_ok THEN Served(db, mem, 500, <<>>, Failure("Failed to analyze answer"))
    ELSE Served(db, mem, 200, <<>>,
                [transcript |-> IF transcript.is_none THEN <<>> ELSE transcript.value,
                 nervousness_score |-> nervousness,
                 features |-> IF nervousness.is_none THEN None ELSE Some("features")])

\* GET /audio/{session_id}/{filename}
get_audio_file(db, mem, session_id, filename, exists) ==
    IF session_id \notin DOMAIN mem
    THEN ExceptException(db, mem, 404, "Session not found", "Failed to serve audio")
    ELSE IF ~exists
    THEN ExceptException(db, mem, 404, "Audio file not found", "Failed to serve audio")
    ELSE Served(db, mem, 200, <<>>, [filename |-> filename, media_type |-> "audio/wav"])

\* POST /api/basic-sentences: the request is validated inside the try block;
\* the session file is written under data/sessions, main3.sessions is not used.
ValidDifficulties == {"beginner", "intermediate", "advanced"}
MinCount == 1
MaxCount == 50
get_basic_sentences(db, mem, request, sentences, session_id, write_ok) ==
    IF request.difficulty \notin ValidDifficulties
    THEN ExceptException(db, mem, 400, "Difficulty must be one of",
                         "Error generating sentences")
    ELSE IF request.count < MinCount \/ request.count > MaxCount
    THEN ExceptException(db, mem, 400, "Count must be between 1 and 50",
                         "Error generating sentences")
    ELSE IF sentences = <<>>
    THEN ExceptException(db, mem, 500, "Failed to generate sentences",
                         "Error generating sentences")
    ELSE IF ~write_ok
    THEN Served(db, mem, 500, <<>>, Failure("Error generating sentences"))
    ELSE Served(db, mem, 200, <<>>, [sentences |-> sentences, session_id |-> session_id])

\* The in-memory session in the shape the endpoint gives the analyzer: each
\* previous answer becomes a user_response turn with its text under "content".
RECURSIVE AnswersAsConversation(_)
AnswersAsConversation(previous_answers) ==
    IF previous_answers = <<>> THEN <<>>
    ELSE <<[type |-> "user_response",
            content |-> Head(previous_answers).answer,
            question_number |-> Head(previous_answers).question_number]>>
         \o AnswersAsConversation(Tail(previous_answers))

MemorySessionData(session_id, memory_session) ==
    [session_id |-> session_id,
     user_name |-> memory_session.user_name,
     user_role |-> memory_session.user_role,
     conversation |-> AnswersAsConversation(memory_session.previous_answers)]

\* msg.get(key) of a turn, None when the key is missing.
GetKey(msg, key) == IF key \in DOMAIN msg THEN Some(msg[key]) ELSE None

\* The endpoint's reformatting: a user_response turn is rebuilt with its text
\* (from "content", else "transcript") under "content" and dropped when it has
\* none; every other turn is kept as it is.
RECURSIVE FormatConversation(_)
FormatConversation(conversation) ==
    IF conversation = <<>> THEN <<>>
    ELSE LET msg == Head(conversation)
             rest == FormatConversation(Tail(conversation))
             content == IF HasText(msg, "content") THEN msg["content"]
                        ELSE IF "transcript" \in DOMAIN msg THEN msg["transcript"]
                        ELSE <<>>
         IN  IF ~HasType(msg, "user_response") THEN <<msg>> \o rest
             ELSE IF content = <<>> THEN rest
             ELSE <<[type |-> "user_response",
                     content |-> content,
                     timestamp |-> GetKey(msg, "timestamp"),
                     question_number |-> GetKey(msg, "question_number")]>> \o rest

\* [msg.get("content", "") for msg in formatted if msg.get("type") == "user_response"]
RECURSIVE UserResponseContents(_)
UserResponseContents(formatted) ==
    IF formatted = <<>> THEN <<>>
    ELSE (IF HasType(Head(formatted), "user_response")
          THEN <<IF "content" \in DOMAIN Head(formatted) THEN Head(formatted)["content"]
                 ELSE <<>>>>
          ELSE <<>>)
         \o UserResponseContents(Tail(formatted))

\* The report the endpoint itself returns when it finds no user response.
EndpointDefaultReport ==
    [overallScore |-> 50,
     scores |-> [d \in Dimensions |-> 50],
     feedback |-> JsonObject([
         strengths |-> <<"Participated in interview process">>,
         improvements |-> <<"No responses available for analysis">>,
         detailedFeedback |-> "Unable to analyze session - no user responses found."])]

\* SessionScoreResponse validates its fields: feedback must be a dict.
ValidScoreResponse(report) ==
    /\ report.overallScore \in Int
    /\ \A d \in DOMAIN report.scores : report.scores[d] \in Int
    /\ report.feedback.kind = "object"

\* What the handler noted while it served an analysis: the analyzer's result
\* and what became of update_session_scores (it raised, returned False or True).
NoNotes == [analysed |-> FALSE, persisted |-> "not_attempted"]
Notes(analysis, updated) ==
    [analysed |-> TRUE,
     analysis |-> analysis,
     persisted |-> IF updated.raised THEN "raised"
                   ELSE IF updated.value THEN "true" ELSE "false"]

\* A mutant: a failed update fails the request.
ReturnAnalysisStrict(got, mem, analysis, updated) ==
    SetKey(IF updated.raised \/ ~updated.value
           THEN Served(updated.db, mem, 500, got.calls \o updated.calls,
                       Failure("Failed to analyze session"))
           ELSE Served(updated.db, mem, 200, got.calls \o updated.calls,
                       [overallScore |-> analysis.overallScore,
                        scores |-> analysis.scores,
                        feedback |-> analysis.feedback]),
           "notes", Notes(analysis, updated))

\* The end of the handler, after the update was tried: an exception of the
\* update is caught and printed, a False is printed; the SessionScoreResponse
\* is built from the analysis (a validation error leaves as a 500).
return_analysis(got, mem, analysis, updated) ==
    LET report == [overallScore |-> analysis.overallScore,
                   scores |-> analysis.scores,
                   feedback |-> analysis.feedback]
    IN  SetKey(IF ~ValidScoreResponse(report)
               THEN Served(updated.db, mem, 500, got.calls \o updated.calls,
                           Failure("Failed to analyze session"))
               ELSE Served(updated.db, mem, 200, got.calls \o updated.calls, report),
               "notes", Notes(analysis, updated))

\* POST /api/session/{session_id}/analyze
analyze_endpoint(db, mem, session_id, find_ok, outcomes, update_ok) ==
    LET got == get_interview_session(db, session_id, find_ok)
    IN  IF ~got.value.found /\ session_id \notin DOMAIN mem
        THEN Served(got.db, mem, 404, got.calls, Failure("Session not found"))
        ELSE
    LET fetched ==
            IF got.value.found THEN got.value.doc
            ELSE MemorySessionData(session_id, mem[session_id])
        conversation ==
            IF "conversation" \in DOMAIN fetched THEN fetched["conversation"] ELSE <<>>
        formatted_conversation == FormatConversation(conversation)
        user_responses == UserResponseContents(formatted_conversation)
        analysis == analyze_session_scores(
                        SetKey(fetched, "conversation", PyList(formatted_conversation)),
                        outcomes)
        updated ==
            update_session_scores(got.db,
                [session_id |-> session_id,
                 sentiment_analysis |-> Some(analysis.scores),
                 confidence_score |-> Some(analysis.scores["confidence"]),
                 communication_score |-> Some(analysis.scores["communication"]),
                 technical_score |-> Some(analysis.scores["technical"]),
                 overall_score |-> Some(analysis.overallScore),
                 detailed_feedback |-> Some(analysis.feedback)],
                update_ok)
    IN  IF user_responses = <<>>
        THEN Served(got.db, mem, 200, got.calls, EndpointDefaultReport)
        ELSE return_analysis(got, mem, analysis, updated)

\* POST /api/sessions/bulk-analyze. One pass of the loop per requested id: a
\* session that is found is analysed and appended to results, then its scores
\* are written; an exception in the pass appends "id: message" to
\* failed_sessions; a session that is not found is appended to failed_sessions.
MaxBulkSessions == 20
\* One pass of the loop for a session that was found: the analysis is appended
\* to results and then handed, field by field, to update_session_scores.
BulkPass(db, session_id, analysis, update_ok) ==
    LET updated ==
            update_session_scores(db,
                [session_id |-> session_id,
                 sentiment_analysis |-> Some(analysis.scores),
                 confidence_score |-> Some(analysis.scores["confidence"]),
                 communication_score |-> Some(analysis.scores["communication"]),
                 technical_score |-> Some(analysis.scores["technical"]),
                 overall_score |-> Some(analysis.overallScore),
                 detailed_feedback |-> Some(analysis.feedback)],
                update_ok)
    IN  [db |-> updated.db,
         raised |-> updated.raised,
         calls |-> updated.calls,
         result |-> [session_id |-> session_id,
                     analysis |-> [overallScore |-> analysis.overallScore,
                                   scores |-> analysis.scores,
                                   feedback |-> analysis.feedback]]]

RECURSIVE BulkLoop(_, _, _, _, _, _, _, _)
BulkLoop(db, session_ids, finds, outcomes, update_ok, results, failed_sessions, calls) ==
    IF session_ids = <<>>
    THEN [db |-> db, results |-> results, failed_sessions |-> failed_sessions,
          calls |-> calls]
    ELSE LET session_id == Head(session_ids)
             got == get_interview_session(db, session_id, Head(finds))
             pass == BulkPass(got.db, session_id,
                              analyze_session_scores(got.value.doc, outcomes),
                              update_ok)
         IN  IF ~got.value.found
             THEN BulkLoop(got.db, Tail(session_ids), Tail(finds), outcomes, update_ok,
                           results,
                           Append(failed_sessions,
                                  [session_id |-> session_id, error |-> None]),
                           calls \o got.calls)
             ELSE BulkLoop(pass.db, Tail(session_ids), Tail(finds), outcomes, update_ok,
                           Append(results, pass.result),
                           IF pass.raised
                           THEN Append(failed_sessions,
                                       [session_id |-> session_id,
                                        error |-> Some("TypeError")])
                           ELSE failed_sessions,
                           calls \o got.calls \o pass.calls)

\* The collection operations of the answer are those of every pass, in order:
\* the lookup's, then the update's when it got as far as update_one.
bulk_analyze_sessions(db, mem, session_ids, finds, outcomes, update_ok) ==
    IF Len(session_ids) > MaxBulkSessions
    THEN Served(db, mem, 400, <<>>,
                Failure("Maximum 20 sessions can be analyzed at once"))
    ELSE LET done == BulkLoop(db, session_ids, finds, outcomes, update_ok, <<>>, <<>>,
                              <<>>)
         IN  Served(done.db, mem, 200, done.calls,
                    [successful_analyses |-> Len(done.results),
                     failed_sessions |-> done.failed_sessions,
                     results |-> done.results])

\* POST /session/{session_id}/finalize: the 404 for a False from
\* finalize_session is raised inside the try block and leaves as a 500.
finalize_interview_session(db, mem, session_id, audio_recording_url, find_ok, update_ok) ==
    LET finalized == finalize_session(db, session_id, audio_recording_url, find_ok,
                                      update_ok)
    IN  IF ~finalized.value
        THEN SetKey(ExceptException(finalized.db, mem, 404, "Session not found",
                                    "Failed to finalize session"),
                    "db_calls", finalized.calls)
        ELSE Served(finalized.db, mem, 200, finalized.calls,
                    [message |-> "Session finalized successfully"])

\* --------------------------------------------------------------- Spec
\* The service: requests arrive one at a time and a handler runs to its
\* response unless it awaits; of the handlers here only /analyze-answer does.
SessionIds == 1..MaxSessions

\* Request inputs. A question number may be null, missing from the JSON (the
\* request model's default, 1) or negative; a transcript may be missing, blank,
\* or text with surrounding whitespace.
GreetingRequests ==
    [user_name : {"Ada"}, user_role : {"Data Scientist"},
     round_id : {None, Some(<<>>), Some(<<"r7">>)}
                \cup {Some(sessions[s].round_id) : s \in DOMAIN sessions}]
QuestionNumbers == {None, Some(1), Some(-5)}
UserTranscripts == {None, Some(<<" ">>), Some(<<" ", "um", "a">>)}
GeneratedQuestions == {<<"q">>, <<" ">>}
AIResponseRequests ==
    [session_id : SessionIds, question_number : QuestionNumbers,
     user_transcript : UserTranscripts]

\* The oracle during one analyze request: every score call raises or every
\* score call replies, with each outcome of the feedback call.
ServiceOutcomes ==
    {[c \in OracleCalls |-> IF c = "feedback" THEN f ELSE d] :
        d \in DimensionOutcomes, f \in FeedbackOutcomes}

\* create_session_id(): an id no session has had.
FreshSessionIds ==
    {s \in SessionIds :
        /\ s \notin DOMAIN mongo \cup DOMAIN sessions
        /\ \A t \in 1..(s - 1) : t \in DOMAIN mongo \cup DOMAIN sessions}

\* The handler runs once; what it leaves behind becomes the next state.
Respond(endpoint, session_id, handled) ==
    \E served \in {handled} :
        /\ mongo' = served.mongo
        /\ sessions' = served.sessions
        /\ response' = [endpoint |-> endpoint, session_id |-> session_id,
                        status |-> served.status, db_calls |-> served.db_calls,
                        body |-> served.body,
                        notes |-> IF "notes" \in DOMAIN served THEN served.notes
                                  ELSE NoNotes]
        /\ UNCHANGED <<analysis_vars, pending, store_vars>>

Init ==
    /\ runs = <<>>
    /\ feedback_call = IdleFeedback
    /\ mongo = EmptyStore
    /\ sessions = EmptyStore
    /\ response = NoResponse
    /\ pending = <<>>
    /\ indexes = create_indexes(0) /\ shadowed = <<>>
    /\ analyzer = SessionAnalyzerInit("gsk_key")
    /\ call = IdleCall
    /\ session_data = EmptyDict
    /\ oracle = NoOutcomes
    /\ analysis_result = IdleResult
    /\ overall_call = IdleOverall

\* The first step of a request that fails, if any: the speech synthesis or
\* one of the collection operations (the steps after it are not reached).
Greeting ==
    \E session_id \in FreshSessionIds, request \in GreetingRequests,
       fails \in {"none", "audio", "insert_one", "update_one"} :
        Respond("greeting", session_id,
                create_greeting(mongo, indexes, sessions, session_id, request,
                                fails # "audio",
                                fails # "insert_one", fails # "update_one"))

\* A session takes requests until it holds MaxExchanges answers or questions.
Exchanges(session) ==
    Max(Len(session.previous_answers),
        IF "generated_questions" \in DOMAIN session
        THEN Len(session.generated_questions) ELSE 0)

AIResponse ==
    \E request \in AIResponseRequests, generated \in GeneratedQuestions,
       fails \in {"none", "audio", "add_user_response", "add_ai_question"} :
        /\ request.session_id \in DOMAIN sessions
            => Exchanges(sessions[request.session_id]) < MaxExchanges
        /\ Respond("ai-response", request.session_id,
                   generate_ai_response(mongo, sessions, request, generated,
                                        fails # "audio", fails # "add_user_response",
                                        fails # "add_ai_question"))

AnalyzeSession ==
    \E session_id \in SessionIds, find_ok \in BOOLEAN, update_ok \in BOOLEAN,
       outcomes \in ServiceOutcomes :
        Respond("analyze", session_id,
                analyze_endpoint(mongo, sessions, session_id, find_ok, outcomes,
                                 update_ok))

EndSession ==
    \E session_id \in SessionIds :
        Respond("end_session", session_id, end_session(mongo, sessions, session_id))

Next == Greeting \/ AIResponse \/ AnalyzeSession \/ EndSession
Spec == Init /\ [][Next]_vars

\* ----------------------------------------------------------- SpecClient
\* The handlers that look a session up or validate a request and change
\* nothing in memory, next to /greeting and DELETE /session; here /ai-response
\* is asked only for sessions main3.sessions does not hold.
BasicSentencesRequests ==
    [count : {MinCount - 1, MinCount, MaxCount, MaxCount + 1},
     difficulty : {"beginner", "advanced", "expert"}]
GeneratedSentences == {<<>>, <<"How are you?">>}
Transcriptions == {None, Some(<<"um", "a">>)}
NervousnessScores == {None, Some(40)}
AudioFilenames == {"greeting.wav", "question_1.wav"}

AIResponseUnknown ==
    \E request \in AIResponseRequests, generated \in GeneratedQuestions :
        /\ request.session_id \notin DOMAIN sessions
        /\ Respond("ai-response", request.session_id,
                   generate_ai_response(mongo, sessions, request, generated, TRUE, TRUE,
                                        TRUE))

\* The two steps of an /analyze-answer request. Every request that waits for
\* its upload is a coroutine of its own, two identical requests included; at
\* most MaxPending wait at a time, and any of them may be resumed next.
AnalyzeAnswerBegin ==
    \E session_id \in SessionIds, question_number \in {1}, open_ok \in BOOLEAN :
        \E begun \in {AwaitUpload(mongo, sessions, session_id, question_number, open_ok)} :
            IF begun.suspended
            THEN /\ Len(pending) < MaxPending
                 /\ pending' = Append(pending, [session_id |-> session_id,
                                                question_number |-> question_number])
                 /\ UNCHANGED <<analysis_vars, service_vars, store_vars>>
            ELSE Respond("analyze-answer", session_id, begun)

AnalyzeAnswer ==
    \E i \in 1..Len(pending), save_ok \in BOOLEAN, transcript \in Transcriptions,
       nervousness \in NervousnessScores :
        \E request \in {pending[i]},
           served \in {analyze_user_answer(mongo, sessions, pending[i].session_id,
                                           pending[i].question_number, save_ok, transcript,
                                           nervousness)} :
            /\ pending' = SubSeq(pending, 1, i - 1) \o SubSeq(pending, i + 1, Len(pending))
            /\ mongo' = served.mongo
            /\ sessions' = served.sessions
            /\ response' = [endpoint |-> "analyze-answer", session_id |-> request.session_id,
                            status |-> served.status, db_calls |-> served.db_calls,
                            body |-> served.body, notes |-> NoNotes]
            /\ UNCHANGED <<analysis_vars, store_vars>>

GetAudio ==
    \E session_id \in SessionIds, filename \in AudioFilenames, exists \in BOOLEAN :
        Respond("audio", session_id,
                get_audio_file(mongo, sessions, session_id, filename, exists))

BasicSentences ==
    \E request \in BasicSentencesRequests, sentences \in GeneratedSentences,
       write_ok \in BOOLEAN :
        Respond("basic-sentences", 0,
                get_basic_sentences(mongo, sessions, request, sentences, 0, write_ok))

NextClient ==
    \/ Greeting \/ EndSession \/ AIResponseUnknown \/ AnalyzeAnswerBegin \/ AnalyzeAnswer
    \/ GetAudio
    \/ BasicSentences
SpecClient == Init /\ [][NextClient]_vars

\* --------------------------------------------------------- SpecQuestions
\* Successive /ai-response requests whose JSON body has no question_number or
\* has it null, for sessions that took a greeting; every step of a request
\* succeeds. The notes keep the JSON body of the request.
\* AIResponseRequest(BaseModel): a field missing from the body takes the
\* model's default, question_number 1 and user_transcript None.
DefaultQuestionNumber == 1
AIResponseRequestModel(json) ==
    [session_id |-> json.session_id,
     question_number |-> IF "question_number" \in DOMAIN json THEN json.question_number
                         ELSE Some(DefaultQuestionNumber),
     user_transcript |-> IF "user_transcript" \in DOMAIN json THEN json.user_transcript
                         ELSE None]
UnnumberedBodies ==
    {[session_id |-> s] : s \in SessionIds}
    \cup {[session_id |-> s, question_number |-> None] : s \in SessionIds}
    \cup {[session_id |-> s, user_transcript |-> Some(<<" ", "um", "a">>)] :
            s \in SessionIds}
WithRequest(served, json) ==
    SetKey(served, "notes",
           [analysed |-> FALSE, persisted |-> "not_attempted", request |-> json])

AIResponseNext ==
    \E json \in UnnumberedBodies :
        /\ json.session_id \in DOMAIN sessions
        /\ Exchanges(sessions[json.session_id]) < MaxQuestions
        /\ Respond("ai-response", json.session_id,
                   WithRequest(generate_ai_response(mongo, sessions,
                                                    AIResponseRequestModel(json), <<"q">>,
                                                    TRUE, TRUE, TRUE),
                               json))

NextQuestions == Greeting \/ AIResponseNext
SpecQuestions == Init /\ [][NextQuestions]_vars

\* -------------------------------------------------------------- SpecBulk
\* Bulk analysis requests for lists of up to MaxBulk session ids (an id may
\* be listed twice), between greetings; the notes keep the requested list.
MaxBulk == 2
BulkRequests == SeqsUpTo(SessionIds, MaxBulk)

BulkAnalyze ==
    \E session_ids \in BulkRequests, update_ok \in BOOLEAN, outcomes \in RepeatOutcomes :
        \E finds \in [1..Len(session_ids) -> BOOLEAN] :
            Respond("bulk-analyze", 0,
                    WithRequest(bulk_analyze_sessions(mongo, sessions, session_ids, finds,
                                                      outcomes, update_ok),
                                session_ids))

NextBulk == Greeting \/ BulkAnalyze
SpecBulk == Init /\ [][NextBulk]_vars

\* ---------------------------------------------------------- SpecFinalize
\* /greeting, /ai-response and /session/{id}/finalize requests in any order
\* (no recording URL is given).
FinalizeSession ==
    \E session_id \in SessionIds, url \in {None},
       find_ok \in BOOLEAN, update_ok \in BOOLEAN :
        Respond("finalize", session_id,
                finalize_interview_session(mongo, sessions, session_id, url, find_ok,
                                           update_ok))

NextFinalize == Greeting \/ AIResponse \/ FinalizeSession
SpecFinalize == Init /\ [][NextFinalize]_vars

\* ---------------------------------------------------------- SpecManager
\* The two methods of InterviewDataManager called in any order on the
\* collection; response keeps the last call: its arguments, the value it
\* returned and the collection operations it issued.
ManagerCall(method, session_id, args, result) ==
    [endpoint |-> method, session_id |-> session_id, status |-> 0,
     db_calls |-> result.calls,
     body |-> [args |-> args, value |-> result.value],
     notes |-> NoNotes]
ManagerUnchanged == <<analysis_vars, sessions, pending, indexes>>
\* handle_ai_response adds at most two turns.
RoomForExchange(session_id) ==
    session_id \in DOMAIN mongo =>
        Len(mongo[session_id].transcript.conversation) + 2 <= MaxStored

ManagerGreeting ==
    /\ \E session_id \in SessionIds, insert_ok \in BOOLEAN, update_ok \in BOOLEAN :
        \E round_id \in {<<"r7">>, GeneratedRound(session_id)} :
            \E result \in {handle_greeting_creation(mongo, indexes, session_id,
                                                    "Data Scientist", <<"hello">>,
                                                    round_id, insert_ok, update_ok)} :
                /\ Len(shadowed) + Len(result.beside) <= MaxShadowed
                /\ mongo' = result.db
                /\ shadowed' = shadowed \o result.beside
                /\ response' = ManagerCall("handle_greeting_creation", session_id,
                                           [round_id |-> round_id], result)
    /\ UNCHANGED ManagerUnchanged

ManagerAIResponse ==
    /\ \E session_id \in SessionIds, question_number \in {1, 2},
          user_transcript \in UserTranscripts,
          response_ok \in BOOLEAN, question_ok \in BOOLEAN :
        /\ RoomForExchange(session_id)
        /\ \E result \in {handle_ai_response(mongo, session_id, <<"q">>, question_number,
                                              "basic", user_transcript, response_ok,
                                              question_ok)} :
                /\ mongo' = result.db
                /\ shadowed' = shadowed
                /\ response' = ManagerCall("handle_ai_response", session_id,
                                           [question_number |-> question_number,
                                            user_transcript |-> user_transcript],
                                           result)
    /\ UNCHANGED ManagerUnchanged

NextManager == ManagerGreeting \/ ManagerAIResponse
SpecManager == Init /\ [][NextManager]_vars

\* ------------------------------------------------------- SpecCollection
\* The collection object constructed with every outcome of _create_indexes,
\* then handle_greeting_creation called with any session id and round id.
InitCollection ==
    /\ runs = <<>>
    /\ feedback_call = IdleFeedback
    /\ mongo = EmptyStore
    /\ sessions = EmptyStore
    /\ response = NoResponse
    /\ pending = <<>>
    /\ \E failed_at \in 0..CreateIndexCalls : indexes = create_indexes(failed_at)
    /\ shadowed = <<>>
    /\ analyzer = SessionAnalyzerInit("gsk_key")
    /\ call = IdleCall
    /\ session_data = EmptyDict
    /\ oracle = NoOutcomes
    /\ analysis_result = IdleResult
    /\ overall_call = IdleOverall

NextCollection == ManagerGreeting
SpecCollection == InitCollection /\ [][NextCollection]_vars

\* ------------------------------------------------------------ SpecStore
\* The methods of InterviewDataCollection called in any order with any
\* session id, each succeeding or failing at the driver, until a conversation
\* holds MaxStored turns.
StoreUnchanged == <<analysis_vars, sessions, response, pending, indexes>>
CanPush(session_id) ==
    session_id \in DOMAIN mongo =>
        Len(mongo[session_id].transcript.conversation) < MaxStored
\* Keyword arguments of update_session_scores: ones it declares (a filled
\* sentiment dict with a score; an empty dict with a None, which set nothing),
\* and the ones main3 passes.
ScoreKwargs(session_id) ==
    {[session_id |-> session_id, sentiment_analysis |-> Some([confidence |-> 75]),
      confidence_score |-> Some(75)],
     [session_id |-> session_id, sentiment_analysis |-> Some(EmptyDict),
      confidence_score |-> None],
     [session_id |-> session_id, confidence_score |-> Some(75),
      overall_score |-> Some(73)]}

InitStore ==
    /\ mongo = EmptyStore /\ sessions = EmptyStore /\ response = NoResponse
    /\ pending = <<>>
    /\ indexes = create_indexes(0) /\ shadowed = <<>>
    /\ runs = <<>> /\ feedback_call = IdleFeedback
    /\ session_data = EmptyDict
    /\ analyzer = SessionAnalyzerInit("gsk_key")
    /\ oracle = NoOutcomes
    /\ analysis_result = IdleResult
    /\ call = IdleCall
    /\ overall_call = IdleOverall

StoreCreate ==
    /\ \E session_id \in SessionIds, insert_ok \in BOOLEAN :
        \E created \in {create_interview_session(mongo, indexes, session_id,
                                                 GeneratedRound(session_id),
                                                 "Data Scientist", insert_ok)} :
            /\ Len(shadowed) + Len(created.beside) <= MaxShadowed
            /\ mongo' = created.db
            /\ shadowed' = shadowed \o created.beside
    /\ UNCHANGED StoreUnchanged

StoreAddGreeting ==
    /\ \E session_id \in SessionIds, update_ok \in BOOLEAN :
        /\ CanPush(session_id)
        /\ mongo' = add_greeting_to_transcript(mongo, session_id, <<"hello">>,
                                               update_ok).db
    /\ UNCHANGED <<StoreUnchanged, shadowed>>

StoreAddQuestion ==
    /\ \E session_id \in SessionIds, update_ok \in BOOLEAN :
        /\ CanPush(session_id)
        /\ mongo' = add_ai_question_to_transcript(mongo, session_id, <<"q">>, 1, "basic",
                                                  update_ok).db
    /\ UNCHANGED <<StoreUnchanged, shadowed>>

StoreAddResponse ==
    /\ \E session_id \in SessionIds, update_ok \in BOOLEAN :
        /\ CanPush(session_id)
        /\ mongo' = add_user_response_to_transcript(mongo, session_id, <<" ", "a">>, 1,
                                                    update_ok).db
    /\ UNCHANGED <<StoreUnchanged, shadowed>>

StoreUpdateScores ==
    /\ \E session_id \in SessionIds, update_ok \in BOOLEAN :
        \E kwargs \in ScoreKwargs(session_id) :
            mongo' = update_session_scores(mongo, kwargs, update_ok).db
    /\ UNCHANGED <<StoreUnchanged, shadowed>>

StoreFinalize ==
    /\ \E session_id \in SessionIds, url \in {None, Some(<<"url">>)},
          find_ok \in BOOLEAN, update_ok \in BOOLEAN :
        mongo' = finalize_session(mongo, session_id, url, find_ok, update_ok).db
    /\ UNCHANGED <<StoreUnchanged, shadowed>>

NextStore ==
    \/ StoreCreate \/ StoreAddGreeting \/ StoreAddQuestion \/ StoreAddResponse
    \/ StoreUpdateScores \/ StoreFinalize
SpecStore == InitStore /\ [][NextStore]_vars


\* ======================================================================
\* Properties
\* ======================================================================
Report == analysis_result.report
Analyzed == analyzer.constructed /\ analysis_result.done

\* The default each _analyze_* method returns from its except clause.
DefaultScore(dim) ==
    CASE dim = "confidence" -> 75
      [] dim = "technical" -> 70
      [] dim = "communication" -> 75
      [] dim = "fluency" -> 80
      [] dim = "base_knowledge" -> 70

\* ---------------------------------------------------------------- C1
\* C1: every report analyze_session_scores returns (oracle replies, oracle
\* failures, no responses, analysis error) has exactly the five dimension
\* scores, each an integer in 1..100, and an overall score in 1..100.
C1_ScoresInRange ==
    Analyzed =>
        /\ DOMAIN Report.scores = Dimensions
        /\ \A d \in Dimensions : Report.scores[d] \in 1..100
        /\ Report.overallScore \in 1..100

\* A run whose oracle raised for one dimension, replied 150 for another and
\* -5 for a third: the default, the upper end and the lower end of the range.
C1_Witness ==
    /\ Analyzed
    /\ DOMAIN oracle = OracleCalls
    /\ oracle["confidence"] = Reply(<<"1", "5", "0">>)
    /\ oracle["technical"] = Raise
    /\ oracle["fluency"] = Reply(<<"-", "5">>)
    /\ Report.scores["confidence"] = 100
    /\ Report.scores["technical"] = 70
    /\ Report.scores["fluency"] = 1

\* ---------------------------------------------------------------- C2
\* The conversation holds no user_response turn with a non-empty transcript.
NoResponseText(data) ==
    \/ "conversation" \notin DOMAIN data
    \/ ~data["conversation"].is_list
    \/ \A i \in 1..Len(data["conversation"].items) :
        LET m == data["conversation"].items[i]
        IN  ~(HasType(m, "user_response") /\ HasText(m, "transcript"))

\* C2: a transcript without any user response that has text (the empty
\* transcript included) is reported with all five scores 50 and overall 50,
\* and the oracle is never called.
C2_NoResponsesDefault ==
    (Analyzed /\ NoResponseText(session_data)) =>
        /\ \A d \in Dimensions : Report.scores[d] = 50
        /\ Report.overallScore = 50
        /\ Report.oracle_calls = {}
        /\ oracle = NoOutcomes

\* A two-turn conversation of a question and a response with an empty
\* transcript, analysed to the default report.
C2_Witness ==
    /\ Analyzed
    /\ "conversation" \in DOMAIN session_data
    /\ session_data["conversation"].is_list
    /\ Len(session_data["conversation"].items) = 2
    /\ \E i \in 1..2 :
        /\ HasType(session_data["conversation"].items[i], "user_response")
        /\ ~HasText(session_data["conversation"].items[i], "transcript")
    /\ NoResponseText(session_data)
    /\ Report.overallScore = 50
    /\ Report.reason = "No user responses found"

\* ---------------------------------------------------------------- C3
\* A report a caller can use: an overall score and the five dimension scores
\* in 1..100, and feedback that is a JSON object.
UsableReport(body) ==
    /\ body.overallScore \in 1..100
    /\ DOMAIN body.scores = Dimensions
    /\ \A d \in Dimensions : body.scores[d] \in 1..100
    /\ body.feedback.kind = "object"

AnalyzeServed == response.endpoint = "analyze"

\* C3: whenever the collection holds the session's document (its transcript),
\* an analyze request for it ends with status 200 and a usable report, whatever
\* the oracle and the collection operations do.
C3_Original ==
    (AnalyzeServed /\ response.session_id \in DOMAIN mongo)
        => (response.status = 200 /\ UsableReport(response.body))

\* What the endpoint does guarantee: an analyze request ends with a usable
\* report or with 404, never with another status; and it ends with a report
\* whenever the sessions dict still holds the session.
C3_ReportOrNotFound ==
    AnalyzeServed =>
        /\ response.status \in {200, 404}
        /\ response.status = 200 => UsableReport(response.body)
        /\ response.session_id \in DOMAIN sessions => response.status = 200

\* An analyze request for a session whose document is stored, answered 404.
C3_NotFoundForStoredSession ==
    /\ AnalyzeServed
    /\ response.session_id \in DOMAIN mongo
    /\ response.session_id \notin DOMAIN sessions
    /\ response.status = 404

\* ---------------------------------------------------------------- C4
FindOneCalls(calls) == Len(SelectSeq(calls, LAMBDA c : c = "find_one"))
Writes(calls) == Len(SelectSeq(calls, LAMBDA c : c \in {"insert_one", "update_one"}))

\* C4: an analyze request for a session id that neither the collection nor the
\* sessions dict holds ends with status 404 after a single find_one, and leaves
\* the collection and the sessions dict as they were.
C4_UnknownSessionNotFound ==
    [][(response'.endpoint = "analyze"
            /\ response'.session_id \notin DOMAIN mongo \cup DOMAIN sessions)
        => /\ response'.status = 404
           /\ FindOneCalls(response'.db_calls) = 1
           /\ Writes(response'.db_calls) = 0
           /\ mongo' = mongo
           /\ sessions' = sessions]_vars

\* A 404 for an unknown id while another session is stored and in memory.
C4_Witness ==
    /\ AnalyzeServed
    /\ response.status = 404
    /\ response.session_id \notin DOMAIN mongo \cup DOMAIN sessions
    /\ FindOneCalls(response.db_calls) = 1
    /\ DOMAIN mongo # {}
    /\ DOMAIN sessions # {}

\* ---------------------------------------------------------------- C5
\* The fluency heuristic of the specification's section 4.2: base 80, minus 20
\* when more than 5% of the words are fillers, minus 10 when more than 2%.
FillerWords == {"um", "uh", "like", "you know", "basically", "actually"}

RECURSIVE CountWords(_, _)
CountWords(responses, words) ==
    IF responses = <<>> THEN 0
    ELSE Cardinality({i \in 1..Len(Head(responses)) : Head(responses)[i] \in words})
         + CountWords(Tail(responses), words)

RECURSIVE TotalWords(_)
TotalWords(responses) ==
    IF responses = <<>> THEN 0 ELSE Len(Head(responses)) + TotalWords(Tail(responses))

HeuristicFluency(responses) ==
    LET fillers == CountWords(responses, FillerWords)
        total == TotalWords(responses)
    IN  IF total = 0 THEN 50
        ELSE IF 100 * fillers > 5 * total THEN Clamp(80 - 20)
        ELSE IF 100 * fillers > 2 * total THEN Clamp(80 - 10)
        ELSE Clamp(80)

HasDigit(chars) == \E i \in 1..Len(chars) : IsDigit(chars[i])
\* The oracle call failed: it raised, or its reply holds no number at all.
OracleFailed(outcome) == outcome.raised \/ ~HasDigit(outcome.content)

\* C5 as claimed: after a failed oracle call the dimension's score is the
\* heuristic score computed from the response texts (stated for fluency, the
\* dimension whose heuristic the specification defines completely).
C5_Original ==
    (call.done /\ call.dim = "fluency" /\ OracleFailed(call.outcome)) =>
        call.score = HeuristicFluency(call.responses)

\* A fluency call on responses with a filler word whose oracle raised: the
\* score is the constant 80, which is not the heuristic score of the texts.
C5_Witness ==
    /\ call.done
    /\ call.dim = "fluency"
    /\ call.outcome = Raise
    /\ call.responses = <<<<"um", "a">>>>
    /\ call.score = 80
    /\ HeuristicFluency(call.responses) # 80

\* ---------------------------------------------------------------- C6
\* C6: with the transcript and the other four oracle outcomes fixed, changing
\* the oracle outcome of one dimension changes no other dimension's score.
C6_DimensionsIndependent ==
    (Analyzed /\ DOMAIN oracle = OracleCalls) =>
        \A d \in Dimensions : \A o \in DimensionOutcomes :
            LET responses == extract_user_responses(session_data["conversation"].items)
                other == DimensionScores(responses, RoleOf(session_data),
                                         [oracle EXCEPT ![d] = o])
            IN  \A e \in Dimensions \ {d} : other[e] = Report.scores[e]

\* A run in which the technical call replied and the base-knowledge call raised.
C6_Witness ==
    /\ Analyzed
    /\ DOMAIN oracle = OracleCalls
    /\ oracle["technical"] = Reply(<<"1", "5", "0">>)
    /\ oracle["base_knowledge"] = Raise
    /\ Report.scores["technical"] = 100
    /\ Report.scores["base_knowledge"] = 70

\* ---------------------------------------------------------------- C7
\* The reply, stripped, is an optional sign followed by decimal digits only,
\* no more of them than int() converts.
IsSign(c) == c \in {"+", "-"}
IsPlainInteger(chars) ==
    LET s == Strip(chars)
        digits == IF s # <<>> /\ IsSign(s[1]) THEN Tail(s) ELSE s
    IN  /\ digits # <<>>
        /\ Len(digits) <= IntMaxStrDigits
        /\ \A i \in 1..Len(digits) : IsDigit(digits[i])

\* The digits read from the right: the last digit plus ten times the rest.
RECURSIVE DigitsValue(_)
DigitsValue(digits) ==
    IF digits = <<>> THEN 0
    ELSE DigitVal(digits[Len(digits)]) + 10 * DigitsValue(SubSeq(digits, 1, Len(digits) - 1))

PlainIntegerValue(chars) ==
    LET s == Strip(chars)
    IN  IF s[1] = "-" THEN 0 - DigitsValue(Tail(s))
        ELSE IF s[1] = "+" THEN DigitsValue(Tail(s))
        ELSE DigitsValue(s)

\* The first run of digits of the reply, as a number.
FirstInteger(chars) == DigitsValue(FirstDigits(chars, <<>>))

\* C7 as claimed: a reply that holds an integer anywhere gives the first
\* integer found, clamped to 1..100; only a reply without one is a failure.
C7_Original ==
    (call.done /\ ~call.outcome.raised) =>
        IF HasDigit(call.outcome.content)
        THEN call.score = Clamp(FirstInteger(call.outcome.content))
        ELSE call.score = DefaultScore(call.dim)

\* A reply "x1": it holds the integer 1 and is treated as a failure.
C7_Witness ==
    /\ call.done
    /\ call.dim = "technical"
    /\ call.outcome = Reply(<<"x", "1">>)
    /\ FirstInteger(call.outcome.content) = 1
    /\ call.score = 70

\* ---------------------------------------------------------------- C8
\* C8 as claimed: on a successful oracle call with value v the score is the
\* floor of the average of the heuristic score and v (stated for fluency).
C8_Original ==
    (/\ call.done
     /\ call.dim = "fluency"
     /\ ~call.outcome.raised
     /\ IsPlainInteger(call.outcome.content)) =>
        call.score = (HeuristicFluency(call.responses)
                      + Clamp(PlainIntegerValue(call.outcome.content))) \div 2

\* A fluency call on responses with a filler word whose oracle replied " 10":
\* the score is 10, the oracle's value alone.
C8_Witness ==
    /\ call.done
    /\ call.dim = "fluency"
    /\ call.responses = <<<<"um", "a">>>>
    /\ call.outcome = Reply(<<" ", "1", "0">>)
    /\ call.score = 10
    /\ (HeuristicFluency(call.responses) + 10) \div 2 # 10

\* ---------------------------------------------------------------- C9
\* 100 times the weighted sum 0.15 c + 0.30 t + 0.25 m + 0.15 f + 0.15 b.
WeightedHundredths(scores) ==
    15 * scores["confidence"] + 30 * scores["technical"] + 25 * scores["communication"]
        + 15 * scores["fluency"] + 15 * scores["base_knowledge"]

\* C9: the overall score is an integer nearest to the weighted sum of the
\* five scores: it differs from the sum by at most one half.
C9_OverallIsNearestInteger ==
    overall_call.done =>
        /\ 100 * overall_call.overall - WeightedHundredths(overall_call.scores) <= 50
        /\ WeightedHundredths(overall_call.scores) - 100 * overall_call.overall <= 50

\* Scores whose weighted sum is 6.5 exactly and is computed as 6.4999...: 6.
C9_Witness ==
    /\ overall_call.done
    /\ overall_call.scores =
        [confidence |-> 1, technical |-> 1, communication |-> 2,
         fluency |-> 1, base_knowledge |-> 36]
    /\ overall_call.overall = 6

\* ---------------------------------------------------------------- C10
\* C10 as claimed: the constructor checks the weight sum, so the weights are
\* known to it and a constructed analyzer holds them.
C10_Original == analyzer.constructed => "weights" \in analyzer.attributes

\* An analyzer constructed without an API key that has computed a report.
C10_Witness ==
    /\ Analyzed
    /\ analyzer.api_key = "None"
    /\ analyzer.attributes = {"client"}
    /\ DOMAIN oracle = OracleCalls

\* ---------------------------------------------------------------- C11
\* Every oracle call of the run failed: each dimension call raised or gave a
\* reply without a number, and the feedback call raised.
OracleDisabled(run) ==
    /\ \A d \in Dimensions : OracleFailed(run.oracle[d])
    /\ run.oracle["feedback"] = FeedbackRaise

\* C11: any two runs on the same session dict in which every oracle call
\* failed, in whatever way each call failed, report the same five scores and
\* the same overall score, whatever the clock read and whatever runs came
\* before or between them.
C11_NoOracleDeterministic ==
    \A i \in 1..Len(runs) : \A j \in 1..Len(runs) :
        (OracleDisabled(runs[i]) /\ OracleDisabled(runs[j])) =>
            /\ runs[i].scores = runs[j].scores
            /\ runs[i].overallScore = runs[j].overallScore

\* Two oracle-less runs on responses, at different times and with the calls
\* failing in different ways, with a run whose oracle replied between them;
\* both give the defaults 75/70/75/80/70.
C11_Witness ==
    /\ Len(runs) = 3
    /\ runs[1].oracle = AllRaise
    /\ runs[2].oracle = AllReply
    /\ runs[3].oracle = MixedFail
    /\ OracleDisabled(runs[1]) /\ ~OracleDisabled(runs[2]) /\ OracleDisabled(runs[3])
    /\ runs[1].analysis_timestamp # runs[3].analysis_timestamp
    /\ runs[2].scores = [d \in Dimensions |-> 10]
    /\ runs[1].scores = [d \in Dimensions |-> DefaultScore(d)]
    /\ runs[3].scores = runs[1].scores
    /\ runs[3].overallScore = runs[1].overallScore

\* ---------------------------------------------------------------- C12
\* C12: when update_session_scores raised or returned False, the analyze
\* request still ends with status 200 and the report carries the scores, the
\* overall score and the feedback the analyzer computed.
C12_ReportSurvivesFailedUpdate ==
    (AnalyzeServed /\ response.notes.persisted \in {"raised", "false"}) =>
        /\ response.status = 200
        /\ response.body.scores = response.notes.analysis.scores
        /\ response.body.overallScore = response.notes.analysis.overallScore
        /\ response.body.feedback = response.notes.analysis.feedback

\* An analysis of an in-memory session with an answer whose update raised.
C12_Witness ==
    /\ AnalyzeServed
    /\ response.notes.persisted = "raised"
    /\ response.status = 200
    /\ response.session_id \in DOMAIN sessions
    /\ sessions[response.session_id].previous_answers # <<>>
    /\ UsableReport(response.body)

\* ---------------------------------------------------------------- C13
\* The feedback is an object with a strengths list and an improvements list,
\* neither of them empty.
NonEmptyLists(feedback) ==
    /\ feedback.kind = "object"
    /\ {"strengths", "improvements"} \subseteq DOMAIN feedback.fields
    /\ feedback.fields["strengths"] # <<>>
    /\ feedback.fields["improvements"] # <<>>

\* C13: the feedback of every report analyze_session_scores returns has a
\* non-empty strengths list and a non-empty improvements list, whichever path
\* produced it.
C13_Original == Analyzed => NonEmptyLists(Report.feedback)

\* What holds: the lists are non-empty on every path but the one that returns
\* the oracle's JSON as json.loads gave it (no response, analysis error, the
\* feedback call raising, a reply that is no JSON).
C13_NonEmptyUnlessJson ==
    (Analyzed /\ ~("feedback" \in DOMAIN oracle /\ oracle["feedback"].parses))
        => NonEmptyLists(Report.feedback)

\* A report whose feedback is the oracle's JSON object with empty lists.
C13_EmptyListsReturned ==
    /\ Analyzed
    /\ Report.feedback.kind = "object"
    /\ Report.feedback.fields["strengths"] = <<>>
    /\ Report.feedback.fields["improvements"] = <<>>

\* ---------------------------------------------------------------- C14
Range(seq) == {seq[i] : i \in 1..Len(seq)}
ParsedFeedback == feedback_call.done /\ feedback_call.feedback.kind = "object"
\* The strings of _parse_feedback_text: one strength and one improvement for
\* each dimension it looks at, and the two it falls back to.
RuleDimensions == {"confidence", "technical", "communication"}
StrengthText ==
    [confidence |-> "Shows strong confidence in responses",
     technical |-> "Demonstrates solid technical knowledge",
     communication |-> "Excellent communication and articulation skills"]
ImprovementText ==
    [confidence |-> "Work on building confidence and assertiveness",
     technical |-> "Enhance technical skills and knowledge base",
     communication |-> "Improve communication clarity and organization"]
FallbackStrength == "Shows potential in interview responses"
FallbackImprovement == "Continue practicing interview skills"
\* The strings the dimensions contributed to a list: all of it, unless it is
\* the fallback alone.
Contributed(list, fallback) == IF list = <<fallback>> THEN 0 ELSE Len(list)

\* C14 as stated: each of the five dimensions adds a strength when its score
\* is 75 or more, an improvement when it is below 60, and nothing in between.
C14_Original ==
    ParsedFeedback =>
        LET scores == feedback_call.scores
            fields == feedback_call.feedback.fields
        IN  /\ Contributed(fields["strengths"], FallbackStrength)
                    = Cardinality({d \in Dimensions : scores[d] >= 75})
            /\ Contributed(fields["improvements"], FallbackImprovement)
                    = Cardinality({d \in Dimensions : scores[d] < 60})

\* C14 as the code has it: only confidence, technical and communication are
\* looked at; each adds its strength exactly when its score is 80 or more and
\* its improvement exactly when its score is below 60, in that order of
\* dimensions; fluency and base_knowledge add nothing; a list nobody added to
\* holds the fallback string alone.
C14_ThreeDimensionsAt80 ==
    ParsedFeedback =>
        LET scores == feedback_call.scores
            strengths == feedback_call.feedback.fields["strengths"]
            improvements == feedback_call.feedback.fields["improvements"]
            strong == {d \in RuleDimensions : scores[d] >= 80}
            weak == {d \in RuleDimensions : scores[d] < 60}
        IN  /\ \A d \in RuleDimensions :
                    /\ StrengthText[d] \in Range(strengths) <=> d \in strong
                    /\ ImprovementText[d] \in Range(improvements) <=> d \in weak
            /\ Contributed(strengths, FallbackStrength) = Cardinality(strong)
            /\ Contributed(improvements, FallbackImprovement) = Cardinality(weak)
            /\ strengths = <<FallbackStrength>> <=> strong = {}
            /\ improvements = <<FallbackImprovement>> <=> weak = {}

\* A score of 75 that adds no strength, one of 80 that does, one of 59 that adds
\* an improvement, and fluency and base_knowledge at 80 and 59 adding nothing.
C14_Witness ==
    /\ ParsedFeedback
    /\ feedback_call.scores = [confidence |-> 75, technical |-> 80, communication |-> 59,
                               fluency |-> 80, base_knowledge |-> 59]
    /\ feedback_call.feedback.fields["strengths"] = <<StrengthText["technical"]>>
    /\ feedback_call.feedback.fields["improvements"] = <<ImprovementText["communication"]>>

\* ---------------------------------------------------------------- C15
\* The conversation that was analysed, when the session dict holds a list.
AnalyzedList ==
    /\ Analyzed
    /\ "conversation" \in DOMAIN session_data
    /\ session_data["conversation"].is_list
AnalyzedTurns == session_data["conversation"].items
\* The text of a user response as main3 reads it when it formats the
\* conversation: msg.get("content") or msg.get("transcript", "").
TurnText(message) ==
    IF HasText(message, "content") THEN message["content"]
    ELSE IF "transcript" \in DOMAIN message THEN message["transcript"]
    ELSE <<>>
IsUserResponseWithText(message) ==
    HasType(message, "user_response") /\ TurnText(message) # <<>>
TextsOf(turns) == [i \in 1..Len(turns) |-> TurnText(turns[i])]

\* C15: the responses that are scored are exactly the turns that are user
\* responses with non-empty text, in transcript order.
C15_Original ==
    AnalyzedList =>
        analysis_result.user_responses
            = TextsOf(SelectSeq(AnalyzedTurns, IsUserResponseWithText))

\* What holds: the scored responses are the user-response turns whose text is
\* under the key "transcript", in order; a turn with its text under "content"
\* (the key mongo.py stores and main3 passes on) is left out.
IsUserResponseWithTranscript(message) ==
    HasType(message, "user_response") /\ HasText(message, "transcript")
C15_TranscriptKeyOnly ==
    AnalyzedList =>
        LET kept == SelectSeq(AnalyzedTurns, IsUserResponseWithTranscript)
        IN  analysis_result.user_responses
                = [i \in 1..Len(kept) |-> kept[i]["transcript"]]

\* A response with text under "content" after one under "transcript": only
\* the first is scored.
C15_ContentTurnDropped ==
    /\ AnalyzedList
    /\ AnalyzedTurns = <<[type |-> "user_response", transcript |-> <<"a">>],
                         [type |-> "user_response", content |-> <<"c">>]>>
    /\ analysis_result.user_responses = << <<"a">> >>

\* ---------------------------------------------------------------- C16
\* A turn with no type and no text.
Malformed(message) ==
    "type" \notin DOMAIN message /\ ~HasText(message, "transcript")
        /\ ~HasText(message, "content")
WellFormed(message) == ~Malformed(message)

\* C16: a turn with no type and no text is skipped: the responses scored are
\* those of the conversation without its malformed turns, and when one of them
\* is left the report is a scored one (all six oracle calls made), not the
\* default of a failed or empty analysis.
C16_MalformedTurnSkipped ==
    AnalyzedList =>
        LET kept == SelectSeq(SelectSeq(AnalyzedTurns, WellFormed),
                              IsUserResponseWithTranscript)
        IN  /\ analysis_result.user_responses
                    = [i \in 1..Len(kept) |-> kept[i]["transcript"]]
            /\ kept # <<>> =>
                    /\ Report.reason = ""
                    /\ Report.oracle_calls = OracleCalls
                    /\ DOMAIN oracle = OracleCalls

\* A malformed turn before a well-formed response: the response is scored.
C16_Witness ==
    /\ AnalyzedList
    /\ AnalyzedTurns = <<EmptyDict, [type |-> "user_response", transcript |-> <<"a">>]>>
    /\ analysis_result.user_responses = << <<"a">> >>
    /\ Report.reason = ""
    /\ Report.oracle_calls = OracleCalls

\* ---------------------------------------------------------------- C17
\* A store with every session but one taken out.
Only(store, session_id) == [s \in DOMAIN store \cap {session_id} |-> store[s]]
Analysed == response.endpoint = "analyze"

\* An analyze request leaves every stored transcript as it was, in the
\* collection and in main3.sessions, and adds or removes no session.
TranscriptsKept ==
    response'.endpoint = "analyze" =>
        /\ DOMAIN mongo' = DOMAIN mongo
        /\ \A s \in DOMAIN mongo : mongo'[s].transcript = mongo[s].transcript
        /\ sessions' = sessions

\* The answer to an analyze request for a session is an answer the endpoint
\* gives when that session is the only one the service has ever held.
ReportOfOwnSession ==
    Analysed =>
        \E find_ok \in BOOLEAN, update_ok \in BOOLEAN, outcomes \in ServiceOutcomes :
            LET alone == analyze_endpoint(Only(mongo, response.session_id),
                                          Only(sessions, response.session_id),
                                          response.session_id, find_ok, outcomes,
                                          update_ok)
            IN  /\ alone.status = response.status
                /\ alone.body = response.body

\* C17: analysis requests are independent across sessions: analysing a session
\* changes no stored transcript, its own or another's, and its answer does
\* not depend on what was requested for other sessions.
C17_AnalysisIndependent == []ReportOfOwnSession /\ [][TranscriptsKept]_vars

\* Session 1 analysed with a report while session 2 holds a transcript with a
\* user response that session 1 does not have.
C17_Witness ==
    /\ Analysed
    /\ response.session_id = 1
    /\ response.status = 200
    /\ {1, 2} \subseteq DOMAIN mongo
    /\ \E i \in 1..Len(mongo[2].transcript.conversation) :
            mongo[2].transcript.conversation[i].type = "user_response"
    /\ \A i \in 1..Len(mongo[1].transcript.conversation) :
            mongo[1].transcript.conversation[i].type # "user_response"

\* ---------------------------------------------------------------- C18
IsPrefix(earlier, later) ==
    Len(earlier) <= Len(later) /\ \A i \in 1..Len(earlier) : later[i] = earlier[i]
ConversationOf(db, session_id) == db[session_id].transcript.conversation

\* Every stored session stays stored, and its conversation afterwards is its
\* conversation before with nothing or with turns added at the end.
AppendOnly ==
    \A s \in DOMAIN mongo :
        /\ s \in DOMAIN mongo'
        /\ IsPrefix(ConversationOf(mongo, s), ConversationOf(mongo', s))

\* C18: under create, add_greeting, add_ai_question, add_user_response,
\* update_session_scores and finalize_session in any order, the stored
\* conversation of each session only grows at its end: no turn is removed,
\* reordered or rewritten.
C18_AppendOnly == [][AppendOnly]_vars

\* A session created, given a greeting, a question and a response in that
\* order, then scored and finalized, with every turn still in its place.
C18_Witness ==
    /\ 1 \in DOMAIN mongo
    /\ Len(ConversationOf(mongo, 1)) = 3
    /\ ConversationOf(mongo, 1)[1].type = "ai_greeting"
    /\ ConversationOf(mongo, 1)[2].type = "ai_question"
    /\ ConversationOf(mongo, 1)[3].type = "user_response"
    /\ mongo[1].confidenceScore = Some(75)
    /\ "session_end" \in DOMAIN mongo[1].transcript
    /\ 2 \in DOMAIN mongo

\* ---------------------------------------------------------------- C19
\* C19: in every stored conversation, a user response recorded with question
\* number n comes after an ai_question turn with question number n.
C19_Original ==
    \A s \in DOMAIN mongo :
        LET conversation == ConversationOf(mongo, s)
        IN  \A i \in 1..Len(conversation) :
                conversation[i].type = "user_response" =>
                    \E j \in 1..(i - 1) :
                        /\ conversation[j].type = "ai_question"
                        /\ conversation[j].metadata.question_number
                                = conversation[i].metadata.question_number

\* A greeting and one /ai-response that left the question number out: the
\* response is stored with number 0 right after the greeting, before the
\* first question (number 1).
C19_ResponseBeforeAnyQuestion ==
    /\ response.endpoint = "ai-response"
    /\ response.status = 200
    /\ 1 \in DOMAIN mongo
    /\ Len(ConversationOf(mongo, 1)) = 3
    /\ ConversationOf(mongo, 1)[1].type = "ai_greeting"
    /\ ConversationOf(mongo, 1)[2].type = "user_response"
    /\ ConversationOf(mongo, 1)[2].metadata.question_number = 0
    /\ ConversationOf(mongo, 1)[3].type = "ai_question"
    /\ ConversationOf(mongo, 1)[3].metadata.question_number = 1

\* ---------------------------------------------------------------- C20
\* The session has a non-empty user response on record: a user_response turn
\* in its stored conversation, or an answer in its in-memory previous_answers.
RecordedResponse(session_id) ==
    \/ /\ session_id \in DOMAIN mongo
       /\ \E i \in 1..Len(ConversationOf(mongo, session_id)) :
            /\ ConversationOf(mongo, session_id)[i].type = "user_response"
            /\ Strip(ConversationOf(mongo, session_id)[i].content) # <<>>
    \/ /\ session_id \in DOMAIN sessions
       /\ \E i \in 1..Len(sessions[session_id].previous_answers) :
            sessions[session_id].previous_answers[i].answer # <<>>
\* The reports given when no response was found: the endpoint's own, and the
\* analyzer's.
AnalyzerNoResponses == generate_default_scores("No user responses found")
NoResponsesReports ==
    {EndpointDefaultReport,
     [overallScore |-> AnalyzerNoResponses.overallScore,
      scores |-> AnalyzerNoResponses.scores,
      feedback |-> AnalyzerNoResponses.feedback]}
ReportServed == Analysed /\ response.status = 200

\* C20: a session with a recorded non-empty user response, when analysed, has
\* its responses scored by the analyzer (all its oracle calls made) and is not
\* given the no-responses default report.
C20_Original ==
    (ReportServed /\ RecordedResponse(response.session_id)) =>
        /\ response.notes.analysed
        /\ response.notes.analysis.oracle_calls = OracleCalls
        /\ response.body \notin NoResponsesReports

\* What holds: every report the endpoint serves is a no-responses default,
\* whatever was recorded; the analyzer never makes an oracle call.
C20_EveryReportIsDefault ==
    ReportServed =>
        /\ response.body \in NoResponsesReports
        /\ response.notes.analysed => response.notes.analysis.oracle_calls = {}

\* A session whose response is stored in the collection and kept in memory,
\* analysed and given the endpoint's no-responses report.
C20_RecordedButDefault ==
    /\ ReportServed
    /\ response.session_id \in DOMAIN mongo \cap DOMAIN sessions
    /\ RecordedResponse(response.session_id)
    /\ sessions[response.session_id].previous_answers # <<>>
    /\ response.body = EndpointDefaultReport

\* The same through the in-memory fallback: the lookup failed, the analyzer was
\* called and found no response.
C20_RecordedButAnalyzerDefault ==
    /\ ReportServed
    /\ RecordedResponse(response.session_id)
    /\ response.notes.analysed
    /\ response.notes.analysis.reason = "No user responses found"

\* ---------------------------------------------------------------- C21
\* The analyzer's report was returned for a session the collection holds.
AnalysisServedForStored ==
    /\ ReportServed
    /\ response.notes.analysed
    /\ response.session_id \in DOMAIN mongo

\* C21: after the analyze endpoint returns the analyzer's report for a session
\* stored in the collection, the document's confidenceScore, communicationScore
\* and technicalScore equal the report's scores.
C21_Original ==
    AnalysisServedForStored =>
        LET doc == mongo[response.session_id]
        IN  /\ doc.confidenceScore = Some(response.body.scores["confidence"])
            /\ doc.communicationScore = Some(response.body.scores["communication"])
            /\ doc.technicalScore = Some(response.body.scores["technical"])

\* What holds: no request ever stores a score; the endpoint's call of
\* update_session_scores raises on its keywords before it reaches the
\* collection, and the document keeps the None it was created with.
C21_ScoresNeverStored ==
    \A s \in DOMAIN mongo :
        /\ mongo[s].sentimentAnalysis = None
        /\ mongo[s].confidenceScore = None
        /\ mongo[s].communicationScore = None
        /\ mongo[s].technicalScore = None

\* The analyzer's report returned with 200 for a stored session whose update
\* raised and whose document still has no score.
C21_ReportedButNotStored ==
    /\ AnalysisServedForStored
    /\ response.notes.persisted = "raised"
    /\ response.body.scores["confidence"] = 50
    /\ mongo[response.session_id].confidenceScore = None

\* ---------------------------------------------------------------- C22
\* The handler raised a client error (a 4xx HTTPException) inside its try block.
ClientErrorRaised ==
    /\ response.endpoint \in {"ai-response", "analyze-answer", "audio", "basic-sentences"}
    /\ "raised" \in DOMAIN response.notes
    /\ response.notes.raised.status \in {400, 404}

\* C22: a client-error HTTPException raised inside /ai-response,
\* /analyze-answer, /audio or /api/basic-sentences reaches the client with its
\* own status code and detail, never as a 500.
C22_Original ==
    ClientErrorRaised =>
        /\ response.status = response.notes.raised.status
        /\ response.body = Failure(response.notes.raised.detail)

\* What holds: each of these handlers catches its own HTTPException in
\* "except Exception" and answers 500 with the handler's detail.
C22_ClientErrorBecomes500 ==
    ClientErrorRaised =>
        /\ response.status = 500
        /\ response.body # Failure(response.notes.raised.detail)

\* /api/basic-sentences with an invalid request answered 500, while another
\* session exists.
C22_BadRequestAnswered500 ==
    /\ response.endpoint = "basic-sentences"
    /\ "raised" \in DOMAIN response.notes
    /\ response.notes.raised.status = 400
    /\ response.status = 500
    /\ sessions # EmptyStore

\* /audio for a session that main3.sessions does not hold answered 500.
C22_UnknownSessionAnswered500 ==
    /\ response.endpoint = "audio"
    /\ response.session_id \notin DOMAIN sessions
    /\ "raised" \in DOMAIN response.notes
    /\ response.notes.raised = [status |-> 404, detail |-> "Session not found"]
    /\ response.status = 500

\* Two /analyze-answer requests for the same session and question wait for
\* their uploads at the same time.
C22_TwoIdenticalWaiting ==
    /\ Len(pending) = 2
    /\ pending[1] = pending[2]

\* ---------------------------------------------------------------- C23
\* The turns a step added at the end of a session's conversation.
AddedTurns(session_id) ==
    SubSeq(ConversationOf(mongo', session_id),
           Len(ConversationOf(mongo, session_id)) + 1,
           Len(ConversationOf(mongo', session_id)))
IsStoredResponse(turn, text, number) ==
    /\ turn.type = "user_response"
    /\ turn.content = text
    /\ turn.metadata.question_number = number
IsStoredQuestion(turn, number) ==
    turn.type = "ai_question" /\ turn.metadata.question_number = number

\* One call of handle_ai_response: with a transcript that is not blank the
\* response is stored first, numbered question_number - 1, then the question;
\* when the response is not stored neither is the question and the call
\* returns False; with a blank or missing transcript only the question is
\* stored. The call returns True exactly when the question was stored.
ResponseThenQuestion ==
    response'.endpoint = "handle_ai_response" =>
        LET s == response'.session_id
            args == response'.body.args
            value == response'.body.value
            given == TruthyText(args.user_transcript)
                        /\ Strip(args.user_transcript.value) # <<>>
        IN  IF s \notin DOMAIN mongo THEN mongo' = mongo /\ ~value
            ELSE LET added == AddedTurns(s)
                 IN  /\ IsPrefix(ConversationOf(mongo, s), ConversationOf(mongo', s))
                     /\ \A t \in DOMAIN mongo \ {s} : mongo'[t] = mongo[t]
                     /\ IF given
                        THEN \/ added = <<>> /\ ~value
                             \/ /\ Len(added) = 1 /\ ~value
                                /\ IsStoredResponse(added[1], args.user_transcript.value,
                                                    args.question_number - 1)
                             \/ /\ Len(added) = 2 /\ value
                                /\ IsStoredResponse(added[1], args.user_transcript.value,
                                                    args.question_number - 1)
                                /\ IsStoredQuestion(added[2], args.question_number)
                        ELSE \/ added = <<>> /\ ~value
                             \/ /\ Len(added) = 1 /\ value
                                /\ IsStoredQuestion(added[1], args.question_number)

\* C23: handle_ai_response stores a non-blank user response before the new
\* question, numbered question_number - 1; a failed response leaves the
\* question unstored and returns False; a blank or missing transcript stores
\* only the question.
C23_ResponseThenQuestion == [][ResponseThenQuestion]_vars

\* A greeting followed by a call with a transcript and question number 2: the
\* response numbered 1, then the question numbered 2, and True returned.
C23_Witness ==
    /\ response.endpoint = "handle_ai_response"
    /\ response.body.value
    /\ response.body.args.question_number = 2
    /\ response.session_id \in DOMAIN mongo
    /\ LET conversation == ConversationOf(mongo, response.session_id)
       IN  /\ Len(conversation) = 3
           /\ conversation[1].type = "ai_greeting"
           /\ IsStoredResponse(conversation[2], <<" ", "um", "a">>, 1)
           /\ IsStoredQuestion(conversation[3], 2)

\* A call whose response could not be stored: False, and no question.
C23_FailedResponseWitness ==
    /\ response.endpoint = "handle_ai_response"
    /\ ~response.body.value
    /\ response.db_calls = <<"update_one">>
    /\ TruthyText(response.body.args.user_transcript)
    /\ response.session_id \in DOMAIN mongo
    /\ Len(ConversationOf(mongo, response.session_id)) = 1

\* ---------------------------------------------------------------- C24
\* The documents of the collection: for each sessionId the one a filter on it
\* matches, and the ones stored beside those.
Documents ==
    {<<"matched", s>> : s \in DOMAIN mongo} \cup {<<"beside", i>> : i \in 1..Len(shadowed)}
DocumentAt(k) == IF k[1] = "matched" THEN mongo[k[2]] ELSE shadowed[k[2]]

\* No two documents have the same sessionId or the same roundId.
UniqueIds ==
    \A k \in Documents : \A l \in Documents \ {k} :
        /\ DocumentAt(k).sessionId # DocumentAt(l).sessionId
        /\ DocumentAt(k).roundId # DocumentAt(l).roundId

\* handle_greeting_creation with a sessionId or a roundId the collection
\* already holds: insert_one is the only operation issued, the collection is
\* what it was (no document added, none changed, no greeting appended) and
\* the call returns False.
DuplicateRejected ==
    (/\ response'.endpoint = "handle_greeting_creation"
     /\ \/ response'.session_id \in DOMAIN mongo
        \/ \E t \in DOMAIN mongo : mongo[t].roundId = response'.body.args.round_id)
        => /\ mongo' = mongo
           /\ shadowed' = shadowed
           /\ ~response'.body.value
           /\ response'.db_calls = <<"insert_one">>

\* C24 as claimed: no two stored sessions share a sessionId or a roundId;
\* creating a session with an id that exists returns nothing, inserts nothing
\* and leaves the stored session unchanged, and handle_greeting_creation then
\* returns False without appending a greeting.
C24_Original == []UniqueIds /\ [][DuplicateRejected]_vars

\* What holds: a collection whose two unique indexes were built keeps its
\* ids unique and rejects every duplicate.
C24_UniqueWhenIndexed ==
    /\ [](indexes = {"sessionId", "roundId"} => UniqueIds)
    /\ [][indexes = {"sessionId", "roundId"} => DuplicateRejected]_vars

\* The unique indexes were not built, and handle_greeting_creation is called
\* for session 1 again: a second document with sessionId 1 and the same
\* roundId is stored, the call returns True, and its greeting is appended to
\* the conversation of the document stored first.
C24_DuplicateStored ==
    /\ indexes = {}
    /\ response.endpoint = "handle_greeting_creation"
    /\ response.session_id = 1
    /\ response.body.value
    /\ response.db_calls = <<"insert_one", "update_one">>
    /\ Len(shadowed) = 1
    /\ shadowed[1].sessionId = 1
    /\ shadowed[1].roundId = mongo[1].roundId
    /\ shadowed[1].transcript.conversation = <<>>
    /\ Len(ConversationOf(mongo, 1)) = 2

\* Only the index on sessionId was built: session 2 is created with the round
\* id session 1 has, and both are stored.
C24_SharedRound ==
    /\ indexes = {"sessionId"}
    /\ response.endpoint = "handle_greeting_creation"
    /\ response.session_id = 2
    /\ response.body.value
    /\ DOMAIN mongo = {1, 2}
    /\ mongo[1].roundId = mongo[2].roundId

\* Both indexes built, session 2 asked for with the round id session 1 has:
\* rejected, while session 1 keeps its greeting.
C24_RejectedWhenIndexed ==
    /\ indexes = {"sessionId", "roundId"}
    /\ response.endpoint = "handle_greeting_creation"
    /\ response.session_id = 2
    /\ ~response.body.value
    /\ response.db_calls = <<"insert_one">>
    /\ DOMAIN mongo = {1}
    /\ mongo[1].roundId = response.body.args.round_id
    /\ Len(ConversationOf(mongo, 1)) = 1

\* ---------------------------------------------------------------- C25
\* The number of turns of one type in a conversation.
TurnsOfType(conversation, type) ==
    Cardinality({i \in 1..Len(conversation) : conversation[i].type = type})

\* C25: for every stored session, after any sequence of collection
\* operations, session_metadata.total_questions is the number of ai_question
\* turns of the conversation and total_responses the number of user_response
\* turns; a greeting turn counts for neither.
C25_CountersMatchTurns ==
    \A s \in DOMAIN mongo :
        LET transcript == mongo[s].transcript
        IN  /\ transcript.session_metadata.total_questions
                    = TurnsOfType(transcript.conversation, "ai_question")
            /\ transcript.session_metadata.total_responses
                    = TurnsOfType(transcript.conversation, "user_response")

\* A finalized session with a greeting, a question and a response, counted
\* one question and one response.
C25_Witness ==
    /\ 1 \in DOMAIN mongo
    /\ "session_end" \in DOMAIN mongo[1].transcript
    /\ TurnsOfType(ConversationOf(mongo, 1), "ai_greeting") = 1
    /\ mongo[1].transcript.session_metadata.total_questions = 1
    /\ mongo[1].transcript.session_metadata.total_responses = 1
    /\ Len(ConversationOf(mongo, 1)) = 3

\* ---------------------------------------------------------------- C26
\* An /ai-response request answered 200 whose body had no question_number.
UnnumberedServed ==
    /\ response'.endpoint = "ai-response"
    /\ response'.status = 200
    /\ "request" \in DOMAIN response'.notes
    /\ "question_number" \notin DOMAIN response'.notes.request
QuestionNumbersOf(session) ==
    IF "generated_questions" \in DOMAIN session
    THEN {session.generated_questions[i].question_number :
            i \in 1..Len(session.generated_questions)}
    ELSE {}
\* The name of the audio file of question n: ai_question_{n}.wav.
QuestionAudioName(n) == <<"ai_question_", n, ".wav">>

\* C26: each /ai-response request without a question_number advances the
\* session's current_question by one, so its question has a number above
\* those of the questions before it and an audio file name of its own.
Advances ==
    UnnumberedServed =>
        LET before == sessions[response'.session_id]
            after == sessions'[response'.session_id]
        IN  /\ after.current_question = before.current_question + 1
            /\ \A n \in QuestionNumbersOf(before) :
                    /\ response'.body.question_number > n
                    /\ QuestionAudioName(response'.body.question_number)
                            # QuestionAudioName(n)
C26_Original == [][Advances]_vars

\* What holds: a body without question_number is a request for question 1
\* (the request model's default), whatever the session's current question; a
\* body with question_number null advances by one.
DefaultedToOne ==
    /\ UnnumberedServed =>
            /\ sessions'[response'.session_id].current_question = DefaultQuestionNumber
            /\ response'.body.question_number = DefaultQuestionNumber
    /\ (/\ response'.endpoint = "ai-response"
        /\ response'.status = 200
        /\ "request" \in DOMAIN response'.notes
        /\ "question_number" \in DOMAIN response'.notes.request
        /\ response'.notes.request.question_number = None)
            => sessions'[response'.session_id].current_question
                    = sessions[response'.session_id].current_question + 1
C26_OmittedMeansOne == [][DefaultedToOne]_vars

\* Three requests without question_number: three questions numbered 1.
C26_SameNumberThrice ==
    /\ response.endpoint = "ai-response"
    /\ response.status = 200
    /\ "request" \in DOMAIN response.notes
    /\ "question_number" \notin DOMAIN response.notes.request
    /\ response.session_id \in DOMAIN sessions
    /\ LET session == sessions[response.session_id]
       IN  /\ Len(session.generated_questions) = 3
           /\ QuestionNumbersOf(session) = {1}
           /\ session.current_question = 1

\* ---------------------------------------------------------------- C27
\* C27: an /ai-response request that ends in an error leaves the session in
\* main3.sessions as it was: current_question, previous_answers and
\* generated_questions keep their values.
SessionKeptOnError ==
    (/\ response'.endpoint = "ai-response"
     /\ response'.status = 500
     /\ response'.session_id \in DOMAIN sessions)
        => /\ response'.session_id \in DOMAIN sessions'
           /\ sessions'[response'.session_id] = sessions[response'.session_id]
C27_Original == [][SessionKeptOnError]_vars

\* What holds: the collection is untouched by a request that fails before
\* handle_ai_response, and no session other than the request's is changed.
OthersKeptOnError ==
    (response'.endpoint = "ai-response" /\ response'.status = 500)
        => /\ DOMAIN sessions' = DOMAIN sessions
           /\ \A s \in DOMAIN sessions \ {response'.session_id} :
                    sessions'[s] = sessions[s]
           /\ response'.db_calls = <<>> => mongo' = mongo
C27_OnlyOwnSessionChanged == [][OthersKeptOnError]_vars

\* A request answered 500 before it reached the collection (the question's
\* audio file was missing) that left its answer, its question and its
\* question number in the session.
C27_FailedRequestChangedSession ==
    /\ response.endpoint = "ai-response"
    /\ response.status = 500
    /\ response.db_calls = <<>>
    /\ response.session_id \in DOMAIN sessions
    /\ LET session == sessions[response.session_id]
       IN  /\ session.current_question = 1
           /\ Len(session.previous_answers) = 1
           /\ "generated_questions" \in DOMAIN session
           /\ Len(session.generated_questions) = 1
    /\ \A i \in 1..Len(ConversationOf(mongo, response.session_id)) :
            ConversationOf(mongo, response.session_id)[i].type = "ai_greeting"

\* ---------------------------------------------------------------- C28
BulkServed == response.endpoint = "bulk-analyze" /\ response.status = 200
\* How often an id is listed in a sequence of ids or of entries for ids.
Listed(ids, id) == Cardinality({i \in 1..Len(ids) : ids[i] = id})
Reported(entries, id) ==
    Cardinality({i \in 1..Len(entries) : entries[i].session_id = id})

\* C28: every requested id is reported once, in results or in
\* failed_sessions and never in both, and successful_analyses is the number
\* of requested ids that are not reported as failed.
C28_Original ==
    BulkServed =>
        LET session_ids == response.notes.request
            results == response.body.results
            failed == response.body.failed_sessions
        IN  /\ \A id \in Range(session_ids) :
                    /\ Reported(results, id) + Reported(failed, id)
                            = Listed(session_ids, id)
                    /\ ~(Reported(results, id) > 0 /\ Reported(failed, id) > 0)
            /\ response.body.successful_analyses
                    = Cardinality({i \in 1..Len(session_ids) :
                                        Reported(failed, session_ids[i]) = 0})

\* What holds: every requested id is in failed_sessions as often as it was
\* requested, with an error message when its session was found; the sessions
\* that were found are also in results, and successful_analyses counts them.
C28_FoundSessionsReportedTwice ==
    BulkServed =>
        LET session_ids == response.notes.request
            results == response.body.results
            failed == response.body.failed_sessions
        IN  /\ \A id \in Range(session_ids) :
                    Reported(failed, id) = Listed(session_ids, id)
            /\ Len(failed) = Len(session_ids)
            /\ \A i \in 1..Len(results) :
                    \E j \in 1..Len(failed) :
                        /\ failed[j].session_id = results[i].session_id
                        /\ failed[j].error = Some("TypeError")
            /\ response.body.successful_analyses = Len(results)
            /\ Len(results)
                    = Cardinality({j \in 1..Len(failed) : ~failed[j].error.is_none})

\* A request for sessions 1 and 2, of which 1 is stored: 1 is in results and
\* in failed_sessions, 2 in failed_sessions, and one analysis is counted. The
\* collection was read once for session 1 and read, counted and sampled for
\* session 2; nothing was written.
C28_AnalysedAndFailed ==
    /\ BulkServed
    /\ response.notes.request = <<1, 2>>
    /\ DOMAIN mongo = {1}
    /\ response.db_calls = <<"find_one", "find_one", "count_documents", "find">>
    /\ response.body.successful_analyses = 1
    /\ Reported(response.body.results, 1) = 1
    /\ response.body.failed_sessions
            = <<[session_id |-> 1, error |-> Some("TypeError")],
                [session_id |-> 2, error |-> None]>>

\* ---------------------------------------------------------------- C29
\* finalize_session has succeeded for the session: its end and its duration
\* are set.
Finalized(db, session_id) ==
    /\ "session_end" \in DOMAIN db[session_id].transcript
    /\ "session_duration" \in DOMAIN db[session_id].transcript.session_metadata

\* C29: once a session is finalized no request appends a turn to its
\* conversation or changes its question and response counters.
FinalizedKept ==
    \A s \in DOMAIN mongo :
        Finalized(mongo, s) =>
            /\ s \in DOMAIN mongo'
            /\ ConversationOf(mongo', s) = ConversationOf(mongo, s)
            /\ mongo'[s].transcript.session_metadata.total_questions
                    = mongo[s].transcript.session_metadata.total_questions
            /\ mongo'[s].transcript.session_metadata.total_responses
                    = mongo[s].transcript.session_metadata.total_responses
C29_Original == [][FinalizedKept]_vars

\* What holds: the finalize request itself changes no conversation and no
\* counter, and a finalized session stays finalized.
FinalizeKeepsTranscript ==
    /\ response'.endpoint = "finalize" =>
            \A s \in DOMAIN mongo :
                /\ ConversationOf(mongo', s) = ConversationOf(mongo, s)
                /\ mongo'[s].transcript.session_metadata.total_questions
                        = mongo[s].transcript.session_metadata.total_questions
                /\ mongo'[s].transcript.session_metadata.total_responses
                        = mongo[s].transcript.session_metadata.total_responses
    /\ \A s \in DOMAIN mongo : Finalized(mongo, s) => Finalized(mongo', s)
C29_FinalizeKeepsTranscript == [][FinalizeKeepsTranscript]_vars

\* A session finalized after its greeting whose next /ai-response was answered
\* 200 and stored a response and a question.
C29_TurnsAfterFinalize ==
    /\ response.endpoint = "ai-response"
    /\ response.status = 200
    /\ response.session_id \in DOMAIN mongo
    /\ Finalized(mongo, response.session_id)
    /\ Len(ConversationOf(mongo, response.session_id)) = 3
    /\ mongo[response.session_id].transcript.session_metadata.total_questions = 1
    /\ mongo[response.session_id].transcript.session_metadata.total_responses = 1

====
